---- MODULE Spec2Model ----
(***************************************************************************)
(* A model of the storage / execution core of the query engine:            *)
(*   - JoinNestedLoop (src/lib/operators/join_nested_loop.cpp)             *)
(*   - DictionaryEncoder (src/lib/storage/dictionary_column/               *)
(*     dictionary_encoder.hpp)                                             *)
(*   - EqualNumElementsHistogram (src/lib/statistics/chunk_statistics/     *)
(*     histograms/equal_num_elements_histogram.cpp)                        *)
(*   - next_value / previous_value of a string histogram                   *)
(*   - DpCcpTopK (src/lib/optimizer/join_ordering/dp_ccp_top_k.cpp)        *)
(*   - DpCcp (src/lib/optimizer/dp_ccp.hpp)                                *)
(*   - CardinalityEstimatorCached (src/lib/statistics/                     *)
(*     cardinality_estimator_cached.hpp)                                   *)
(*   - Chunk and Table (src/lib/storage/chunk.hpp)                         *)
(*   - jit_and / jit_or (src/lib/operators/jit_operator/jit_operations.hpp)*)
(*   - PluginManager (src/lib/utils/plugin_manager.cpp)                    *)
(*   - the transactions of the Console (src/bin/console/console.cpp)       *)
(*   - TableGenerator (src/benchmarklib/table_generator.cpp)               *)
(* Chunk ids, chunk offsets and column ids are 0-based as in the source;   *)
(* TLA+ sequences are 1-based, so element i of a vector v is v[i + 1].     *)
(***************************************************************************)
EXTENDS Integers, Sequences, FiniteSets, TLC

\* ------------------------------------------------------------------ bounds
\* total number of rows of an input table of the join
MaxRows == 2
\* join / column values are 1..MaxVal
MaxVal == 2
\* length of a ValueColumn given to the dictionary encoder
MaxLen == 5
\* the values of that column are 1..MaxDictVal
MaxDictVal == 3
\* number of rows of the column a histogram is generated for
MaxHistRows == 5
\* the values of that column are 1..MaxHistVal
MaxHistVal == 5
\* the target number of buckets is 1..MaxBuckets
MaxBuckets == 3
\* the supported characters of a string histogram are 1..AlphabetSize ('a' is 1,
\* the last one stands for 'z'); 0 and AlphabetSize + 1 are unsupported characters
AlphabetSize == 3
\* length of the string given to next_value / previous_value
MaxStringLen == 3
\* number of vertices of a join graph
MaxVertices == 4
\* the subplan cache keeps 1..MaxEntryCount plans per vertex set
MaxEntryCount == 2
\* the relations of an estimate call are among 1..MaxRelations
MaxRelations == 2
\* the predicates of an estimate call are among 1..MaxPredicates
MaxPredicates == 1
\* a cardinality is in 1..MaxCardinality
MaxCardinality == 2
\* number of estimate calls made of one estimator
MaxEstimateCalls == 3
\* number of threads that call the estimator
MaxCallers == 2
\* number of columns of the chunk whose columns are replaced
MaxColumns == 2
\* number of rows of that chunk
MaxChunkRows == 2
\* number of replace_column calls made of that chunk
MaxReplacements == 2
\* number of threads that read the chunk
MaxReaders == 2
\* the chunk capacity of a table is 1..MaxChunkSize
MaxChunkSize == 2
\* number of chunks of a table rows are appended to
MaxTableChunks == 3
\* the byte stored in a boolean JitMaterializedValue is 0..MaxJitValue
MaxJitValue == 2
\* number of names plugins are loaded under
MaxPluginNames == 2
\* number of plugin instances the libraries' factories return
MaxPluginInstances == 2
\* start() is called at most this often on a plugin
MaxPluginStarts == 2
\* number of transactions a console begins
MaxTransactions == 3
\* the table generator is asked for 1..MaxNumRows rows
MaxNumRows == 5
\* in chunks of 1..MaxGeneratorChunkSize rows
MaxGeneratorChunkSize == 3
\* of values 0..MaxDifferentValue
MaxDifferentValue == 1

VARIABLES
  \* ---- JoinNestedLoop
  mode,                       \* _mode
  predicate_condition,        \* _predicate_condition
  left_in_table,              \* _left_in_table  (_input_left->get_output())
  right_in_table,             \* _right_in_table (_input_right->get_output())
  pc,                         \* position inside _on_execute
  output_cxlumn_definitions,  \* column definitions of _output_table
  pos_list_left,              \* *_pos_list_left
  pos_list_right,             \* *_pos_list_right
  right_matches,              \* _right_matches
  chunk_id_left,              \* loop variable of the scan over the left chunks
  output_segments,            \* ChunkSegments appended to _output_table
  \* ---- DictionaryEncoder
  value_column,               \* the ValueColumn<T> to encode
  dpc,                        \* position of the encoder
  dictionary,                 \* dictionary of the encoded column
  attribute_vector,           \* uncompressed attribute vector
  null_value_id,              \* ValueID{null_value_id} of the encoded column
  max_value,                  \* max_value handed to compress_vector
  \* ---- EqualNumElementsHistogram
  hist_column,                \* the rows of the column the histogram is built for
  max_num_buckets,            \* argument of generate
  distinct_column,            \* sorted distinct values of the column
  count_column,               \* number of rows per distinct value
  mins,                       \* _mins
  maxs,                       \* _maxs
  counts,                     \* _counts
  distinct_count_per_bucket,  \* _distinct_count_per_bucket
  num_buckets_with_extra_value, \* _num_buckets_with_extra_value
  hpc,                        \* position of the histogram
  query,                      \* the last estimate asked of the histogram
  \* ---- next_value / previous_value of a string histogram
  string_value,               \* the argument
  string_result,              \* what the last call returned, or that it failed
  spc,                        \* which calls have been made
  \* ---- DpCcpTopK
  join_graph,                 \* _join_graph
  max_entry_count_per_set,    \* argument of the constructor
  csg_cmp_pairs,              \* result of EnumerateCcp
  pair_index,                 \* number of csg_cmp_pairs processed
  subplan_cache,              \* *_subplan_cache
  lqp_blacklist,              \* _lqp_blacklist: the blacklisted plans, if any
  current_plans,              \* the plans built for the pair processed last
  dppc,                       \* position inside the algorithm
  \* ---- CardinalityEstimatorCached
  cache_mode,                 \* _cache_mode
  cardinality_cache,          \* *_cache: the cardinality cached per fingerprint
  callers,                    \* per thread: the estimate call it is in
  returned_estimates,         \* the estimate calls that returned, in the order they returned
  fallback_invocations,       \* per fingerprint: calls of _fallback_estimator->estimate
  overlapped,                 \* the fingerprints two calls were in progress for at once
  \* ---- Chunk (replace_column / get_segment)
  chunk_columns,              \* _columns: per column the segment it points to
  segment_heap,               \* the segments allocated, with their contents
  readers,                    \* per reader thread: the segment it holds and what it read
  replace_log,                \* the replace_column calls that returned
  \* ---- Table (append_chunk / append)
  stored_table,               \* the table: its chunk capacity and its chunks
  table_op,                   \* the operation applied last
  \* ---- jit_and / jit_or
  jit_lhs,                    \* lhs
  jit_rhs,                    \* rhs
  jit_result,                 \* result
  jit_pc,                     \* the operation applied
  \* ---- PluginManager
  plugins,                    \* _plugins: per registered name the handle and the plugin
  start_calls,                \* per plugin instance: calls of start()
  stop_calls,                 \* per plugin instance: calls of stop()
  plugin_call,                \* the call made last and how it ended
  clean_up,                   \* the loop of _clean_up: its iterator and the stop() calls it made
  \* ---- Console
  explicitly_created_transaction_context,  \* _explicitly_created_transaction_context
  transactions,               \* the transaction contexts created so far, with their phase
  return_code,                \* what the last command returned
  command,                    \* the last command
  \* ---- TableGenerator
  generator_args,             \* the overload called and its arguments
  generated_table,            \* table
  value_vectors,              \* value_vectors (of one column)
  generator_index,            \* i / chunk_index
  gpc                         \* position inside generate_table

joinVars == <<mode, predicate_condition, left_in_table, right_in_table, pc,
              output_cxlumn_definitions, pos_list_left, pos_list_right,
              right_matches, chunk_id_left, output_segments>>
dictVars == <<value_column, dpc, dictionary, attribute_vector, null_value_id, max_value>>
histVars == <<hist_column, max_num_buckets, distinct_column, count_column, mins, maxs,
              counts, distinct_count_per_bucket, num_buckets_with_extra_value, hpc, query>>
stringVars == <<string_value, string_result, spc>>
dpVars == <<join_graph, max_entry_count_per_set, csg_cmp_pairs, pair_index, subplan_cache,
            lqp_blacklist, current_plans, dppc>>
estVars == <<cache_mode, cardinality_cache, callers, returned_estimates,
             fallback_invocations, overlapped>>
chunkVars == <<chunk_columns, segment_heap, readers, replace_log>>
tableVars == <<stored_table, table_op>>
jitVars == <<jit_lhs, jit_rhs, jit_result, jit_pc>>
pluginVars == <<plugins, start_calls, stop_calls, plugin_call, clean_up>>
consoleVars == <<explicitly_created_transaction_context, transactions, return_code, command>>
generatorVars == <<generator_args, generated_table, value_vectors, generator_index, gpc>>
\* the components beside the join, the encoder, the histograms and the join ordering
restVars == <<estVars, chunkVars, tableVars, jitVars, pluginVars, consoleVars, generatorVars>>
vars == <<joinVars, dictVars, histVars, stringVars, dpVars, restVars>>

\* no estimate asked yet
NoQuery == [value |-> 0, condition |-> "", cardinality |-> [num |-> 0, den |-> 1],
            can_prune |-> FALSE]

\* a histogram that is not part of the behaviour
HistIdle ==
  /\ hist_column = <<>>
  /\ max_num_buckets = 0
  /\ distinct_column = <<>>
  /\ count_column = <<>>
  /\ mins = <<>>
  /\ maxs = <<>>
  /\ counts = <<>>
  /\ distinct_count_per_bucket = 0
  /\ num_buckets_with_extra_value = 0
  /\ hpc = "idle"
  /\ query = NoQuery

\* what a call returns: a string, or a failure
Returned(str) == [failed |-> FALSE, value |-> str]
Failed == [failed |-> TRUE, value |-> <<>>]

\* no call of next_value / previous_value is part of the behaviour
StringIdle ==
  /\ string_value = <<>>
  /\ string_result = Returned(<<>>)
  /\ spc = "idle"

\* no join ordering is part of the behaviour
DpIdle ==
  /\ join_graph = [vertices |-> <<>>, edges |-> {}]
  /\ max_entry_count_per_set = 0
  /\ csg_cmp_pairs = <<>>
  /\ pair_index = 0
  /\ subplan_cache = <<>>
  /\ lqp_blacklist = {}
  /\ current_plans = <<>>
  /\ dppc = "idle"

\* the components other than the join, the encoder and the histogram
StringAndDpIdle == StringIdle /\ DpIdle

\* no cached estimator is part of the behaviour
EstIdle ==
  /\ cache_mode = "idle"
  /\ cardinality_cache = <<>>
  /\ callers = <<>>
  /\ returned_estimates = <<>>
  /\ fallback_invocations = <<>>
  /\ overlapped = {}

\* no chunk whose columns are replaced is part of the behaviour
ChunkIdle ==
  /\ chunk_columns = <<>>
  /\ segment_heap = <<>>
  /\ readers = <<>>
  /\ replace_log = <<>>

\* no table rows are appended to is part of the behaviour
TableIdle ==
  /\ stored_table = [max_chunk_size |-> 0, chunks |-> <<>>]
  /\ table_op = [name |-> "idle", before |-> <<>>]

\* no logical jit operation is part of the behaviour
JitIdle ==
  /\ jit_lhs = [is_null |-> FALSE, value |-> 0]
  /\ jit_rhs = [is_null |-> FALSE, value |-> 0]
  /\ jit_result = [is_null |-> FALSE, value |-> 0]
  /\ jit_pc = "idle"

\* no plugin manager is part of the behaviour
PluginIdle ==
  /\ plugins = {}
  /\ start_calls = <<>>
  /\ stop_calls = <<>>
  /\ plugin_call = [name |-> "idle"]
  /\ clean_up = [pc |-> "idle"]

\* no console is part of the behaviour
ConsoleIdle ==
  /\ explicitly_created_transaction_context = 0
  /\ transactions = <<>>
  /\ return_code = "idle"
  /\ command = [name |-> "idle"]

\* no table generator is part of the behaviour
GeneratorIdle ==
  /\ generator_args = [overload |-> 0]
  /\ generated_table = [max_chunk_size |-> 0, chunks |-> <<>>]
  /\ value_vectors = <<>>
  /\ generator_index = 0
  /\ gpc = "idle"

\* every component but the named one is not part of the behaviour
RestIdleBut(component) ==
  /\ IF component = "est" THEN TRUE ELSE EstIdle
  /\ IF component = "chunk" THEN TRUE ELSE ChunkIdle
  /\ IF component = "table" THEN TRUE ELSE TableIdle
  /\ IF component = "jit" THEN TRUE ELSE JitIdle
  /\ IF component = "plugin" THEN TRUE ELSE PluginIdle
  /\ IF component = "console" THEN TRUE ELSE ConsoleIdle
  /\ IF component = "generator" THEN TRUE ELSE GeneratorIdle

RestIdle == RestIdleBut("none")

\* ------------------------------------------------------------ common types
Values == 1..MaxVal

\* what a segment iterator yields for one position (value is unused when is_null)
NullCell == [is_null |-> TRUE, value |-> 0]
Cell(v) == [is_null |-> FALSE, value |-> v]
Cells == {NullCell} \cup {Cell(v) : v \in Values}

RowID(c, o) == [chunk_id |-> c, chunk_offset |-> o]
NULL_ROW_ID == [chunk_id |-> -1, chunk_offset |-> -1]
RowIsNull(row) == row.chunk_offset = NULL_ROW_ID.chunk_offset

JoinModes == {"Inner", "Left", "Right", "Outer", "Cross", "Semi", "Anti"}
PredicateConditions == {"Equals", "NotEquals", "LessThan", "LessThanEquals",
                        "GreaterThan", "GreaterThanEquals"}

\* ------------------------------------------------------------------ tables
\* A segment: a ValueSegment has values, a ReferenceSegment has
\* (referenced_table, referenced_cxlumn_id, pos_list).
ValueSegment(vals) ==
  [values |-> vals, referenced_table |-> "", referenced_cxlumn_id |-> 0, pos_list |-> <<>>]
ReferenceSegment(table, cxlumn_id, pl) ==
  [values |-> <<>>, referenced_table |-> table, referenced_cxlumn_id |-> cxlumn_id,
   pos_list |-> pl]

CxlumnDefinition(n, nullable) == [name |-> n, nullable |-> nullable]

Table(n, type, defs, chunks) ==
  [name |-> n, type |-> type, cxlumn_definitions |-> defs, chunks |-> chunks]

chunk_count(t) == Len(t.chunks)
cxlumn_count(t) == Len(t.cxlumn_definitions)
column_is_nullable(t, cxlumn_id) == t.cxlumn_definitions[cxlumn_id + 1].nullable
get_segment(t, chunk_id, cxlumn_id) == t.chunks[chunk_id + 1][cxlumn_id + 1]

\* Two stored Data tables with two columns each, the targets of the
\* ReferenceSegments of the References inputs.
T1 ==
  Table("T1", "Data", <<CxlumnDefinition("a", FALSE), CxlumnDefinition("b", FALSE)>>,
        << <<ValueSegment(<<Cell(1)>>), ValueSegment(<<Cell(2)>>)>> >>)
T2 ==
  Table("T2", "Data", <<CxlumnDefinition("a", TRUE), CxlumnDefinition("b", TRUE)>>,
        << <<ValueSegment(<<Cell(2)>>), ValueSegment(<<Cell(1)>>)>>,
           <<ValueSegment(<<Cell(1)>>), ValueSegment(<<NullCell>>)>> >>)
StoredTables == {T1, T2}
StoredTable(n) == CHOOSE t \in StoredTables : t.name = n

segment_size(seg) == IF seg.referenced_table = "" THEN Len(seg.values) ELSE Len(seg.pos_list)
chunk_size(t, chunk_id) == segment_size(get_segment(t, chunk_id, 0))
row_count(t) == LET RECURSIVE sum(_)
                    sum(k) == IF k = 0 THEN 0 ELSE chunk_size(t, k - 1) + sum(k - 1)
                IN sum(chunk_count(t))
\* the RowIDs that point to a row of t
RowIDsOf(t) ==
  UNION {{RowID(c, o) : o \in 0..(chunk_size(t, c) - 1)} : c \in 0..(chunk_count(t) - 1)}

\* What iterating a segment yields at chunk offset o: a ValueSegment yields its
\* value and null flag, a ReferenceSegment resolves the RowID through the
\* referenced column and yields NULL for NULL_ROW_ID.
SegmentCell(seg, o) ==
  IF seg.referenced_table = "" THEN seg.values[o + 1]
  ELSE LET row == seg.pos_list[o + 1]
       IN IF RowIsNull(row) THEN NullCell
          ELSE get_segment(StoredTable(seg.referenced_table), row.chunk_id,
                           seg.referenced_cxlumn_id).values[row.chunk_offset + 1]

\* ------------------------------------------------- inputs of JoinNestedLoop
RECURSIVE SumLen(_)
SumLen(seqs) == IF seqs = <<>> THEN 0 ELSE Len(Head(seqs)) + SumLen(Tail(seqs))

\* all ways to cut at most MaxRows rows drawn from S into non-empty chunks
ChunkLayouts(S) ==
  LET chunks == UNION {[1..n -> S] : n \in 1..MaxRows}
  IN {l \in UNION {[1..k -> chunks] : k \in 0..MaxRows} : SumLen(l) <= MaxRows}

HasNull(layout) == \E k \in 1..Len(layout) : \E i \in 1..Len(layout[k]) : layout[k][i].is_null

\* Data tables with one column holding any values and NULLs
DataTables(n) ==
  {Table(n, "Data", <<CxlumnDefinition(n, HasNull(l))>>,
         [k \in 1..Len(l) |-> <<ValueSegment(l[k])>>]) : l \in ChunkLayouts(Cells)}

\* The chunks of a References table as an operator emits them: both segments of a
\* chunk share one PosList into one stored table; column 0 references the stored
\* table's column 1 and column 1 its column 0 (a projection that swaps them).
RefCxlumn(cxlumn_id) == 1 - cxlumn_id
RefChunks(t) ==
  {<<ReferenceSegment(t.name, RefCxlumn(0), pl), ReferenceSegment(t.name, RefCxlumn(1), pl)>> :
     pl \in UNION {[1..n -> RowIDsOf(t) \cup {NULL_ROW_ID}] : n \in 1..MaxRows}}
ReferencesTables ==
  LET chunks == UNION {RefChunks(t) : t \in StoredTables}
      layouts == {l \in UNION {[1..k -> chunks] : k \in 0..MaxRows} :
                    SumLen([k \in 1..Len(l) |-> l[k][1].pos_list]) <= MaxRows}
      yields_null(l) == \E k \in 1..Len(l) : \E c \in 1..2 : \E o \in 1..Len(l[k][c].pos_list) :
                          SegmentCell(l[k][c], o - 1).is_null
  IN {Table("V", "References",
            <<CxlumnDefinition("x", yields_null(l)), CxlumnDefinition("y", yields_null(l))>>, l) :
        l \in layouts}

\* ------------------------------------------------------------ the comparison
\* with_comparator: the functor of a predicate condition
Comparator(condition, l, r) ==
  CASE condition = "Equals" -> l = r
    [] condition = "NotEquals" -> l # r
    [] condition = "LessThan" -> l < r
    [] condition = "LessThanEquals" -> l <= r
    [] condition = "GreaterThan" -> l > r
    [] condition = "GreaterThanEquals" -> l >= r

\* ------------------------------------------------------------ JoinNestedLoop
\* std::vector<bool>::resize: keeps the old elements, new ones are false
Resize(v, n) == [i \in 1..n |-> IF i <= Len(v) THEN v[i] ELSE FALSE]

JoinParams(pl, pr, lm, rm, tl, tr) ==
  [pos_list_left |-> pl, pos_list_right |-> pr, left_matches |-> lm, right_matches |-> rm,
   track_left_matches |-> tl, track_right_matches |-> tr]

process_match(left_row_id, right_row_id, params) ==
  [params EXCEPT
     !.pos_list_left = Append(@, left_row_id),
     !.pos_list_right = Append(@, right_row_id),
     !.left_matches = IF params.track_left_matches
                      THEN [@ EXCEPT ![left_row_id.chunk_offset + 1] = TRUE] ELSE @,
     !.right_matches = IF params.track_right_matches
                       THEN [@ EXCEPT ![right_row_id.chunk_offset + 1] = TRUE] ELSE @]

\* the join loop without the NULL check of the right value
RECURSIVE join_two_typed_segments_no_right_null_check(_, _, _, _, _, _, _)
join_two_typed_segments_no_right_null_check(i, condition, column_left, column_right, cid_left, cid_right, params) ==
  LET nl == segment_size(column_left)
      nr == segment_size(column_right)
  IN IF nr = 0 \/ i >= nl * nr THEN params
     ELSE LET left_value == SegmentCell(column_left, i \div nr)
              right_value == SegmentCell(column_right, i % nr)
              hit == /\ ~left_value.is_null
                     /\ Comparator(condition, left_value.value, right_value.value)
          IN join_two_typed_segments_no_right_null_check(i + 1, condition, column_left,
               column_right, cid_left, cid_right,
               IF hit THEN process_match(RowID(cid_left, i \div nr), RowID(cid_right, i % nr), params)
               ELSE params)

\* The two nested loops over the iterators of the two segments; step i is the
\* pair (left offset i div size(right), right offset i mod size(right)).
RECURSIVE join_two_typed_segments(_, _, _, _, _, _, _)
join_two_typed_segments(i, condition, column_left, column_right, cid_left, cid_right, params) ==
  LET nl == segment_size(column_left)
      nr == segment_size(column_right)
  IN IF nr = 0 \/ i >= nl * nr THEN params
     ELSE LET left_value == SegmentCell(column_left, i \div nr)
              right_value == SegmentCell(column_right, i % nr)
              hit == /\ ~left_value.is_null
                     /\ ~right_value.is_null
                     /\ Comparator(condition, left_value.value, right_value.value)
          IN join_two_typed_segments(i + 1, condition, column_left, column_right,
               cid_left, cid_right,
               IF hit THEN process_match(RowID(cid_left, i \div nr), RowID(cid_right, i % nr), params)
               ELSE params)

\* the tables and join columns after the swap of Right mode
left_table == IF mode = "Right" THEN right_in_table ELSE left_in_table
right_table == IF mode = "Right" THEN left_in_table ELSE right_in_table
\* _cxlumn_ids: the join column is column 0 on both sides
left_cxlumn_id == 0
right_cxlumn_id == 0
\* every mode but Inner is taken for an outer join
is_outer_join_unless_inner == mode # "Inner"
\* _is_outer_join
is_outer_join == mode \in {"Left", "Right", "Outer"}

\* The scan of all chunks of the right input for one left chunk: state is
\* [pl, pr, lm (left_matches), rms (_right_matches)].
RECURSIVE scan_right_chunks(_, _, _)
scan_right_chunks(cid_left, cid_right, st) ==
  IF cid_right >= chunk_count(right_table) THEN st
  ELSE LET column_left == get_segment(left_table, cid_left, left_cxlumn_id)
           column_right == get_segment(right_table, cid_right, right_cxlumn_id)
           resized == Resize(st.rms[cid_right + 1], segment_size(column_right))
           params == JoinParams(st.pl, st.pr, st.lm, resized, is_outer_join, mode = "Outer")
           after == join_two_typed_segments(0, predicate_condition, column_left, column_right,
                                            cid_left, cid_right, params)
       IN scan_right_chunks(cid_left, cid_right + 1,
            [pl |-> after.pos_list_left, pr |-> after.pos_list_right,
             lm |-> after.left_matches,
             rms |-> [st.rms EXCEPT ![cid_right + 1] = after.right_matches]])

\* the rows of the left chunk that no right row matched, in offset order
UnmatchedLeft(cid_left, left_matches) ==
  LET offsets == [o \in 1..Len(left_matches) |-> o - 1]
      missing == SelectSeq(offsets, LAMBDA o : ~left_matches[o + 1])
  IN [k \in 1..Len(missing) |-> RowID(cid_left, missing[k])]

NullRows(n) == [k \in 1..n |-> NULL_ROW_ID]

\* all RowIDs of a table in chunk order, then offset order
RECURSIVE AllRows(_, _)
AllRows(t, cid) ==
  IF cid >= chunk_count(t) THEN <<>>
  ELSE [o \in 1..chunk_size(t, cid) |-> RowID(cid, o - 1)] \o AllRows(t, cid + 1)

\* A PosList object: its identity (the allocation that made it) and its rows.
\* 1 is _pos_list_left, 2 is _pos_list_right, 3 + k is the list allocated while
\* output column k was written.
PosList(id, rows) == [id |-> id, rows |-> rows]

create_dummy_table(defs) == Table("dummy", "Data", defs, <<>>)

\* A segment of the output chunk. input_table and cxlumn_id record the arguments
\* it was built from; table_id is 0 for a table that existed before the join and
\* 3 + k for the dummy table created while output column k was written.
OutputSegment(side, cxlumn_id, table, table_id, referenced_cxlumn_id, pl) ==
  [input_table |-> side, cxlumn_id |-> cxlumn_id, referenced_table |-> table,
   table_id |-> table_id, referenced_cxlumn_id |-> referenced_cxlumn_id, pos_list |-> pl]

\* the de-referencing loop of _write_output_chunks for one column
Dereference(input_table, cxlumn_id, rows) ==
  [k \in 1..Len(rows) |->
     IF RowIsNull(rows[k]) THEN NULL_ROW_ID
     ELSE get_segment(input_table, rows[k].chunk_id, cxlumn_id).pos_list[rows[k].chunk_offset + 1]]

\* _write_output_chunks de-referencing (an identity copy) for Data inputs too
write_output_segment_copies_pos_list(done, side, input_table, cxlumn_id, pos_list) ==
  IF input_table.type = "References"
  THEN IF chunk_count(input_table) > 0
       THEN LET new_pos_list == PosList(3 + done, Dereference(input_table, cxlumn_id, pos_list.rows))
                reference_segment == get_segment(input_table, 0, cxlumn_id)
            IN OutputSegment(side, cxlumn_id, StoredTable(reference_segment.referenced_table), 0,
                             reference_segment.referenced_cxlumn_id, new_pos_list)
       ELSE OutputSegment(side, cxlumn_id, create_dummy_table(input_table.cxlumn_definitions),
                          3 + done, cxlumn_id, pos_list)
  ELSE OutputSegment(side, cxlumn_id, input_table, 0, cxlumn_id, PosList(3 + done, pos_list.rows))

\* _write_output_chunks without the dummy table: the segment references the
\* empty input table itself
write_output_segment_no_dummy(done, side, input_table, cxlumn_id, pos_list) ==
  IF input_table.type = "References" /\ chunk_count(input_table) > 0
  THEN LET new_pos_list == PosList(3 + done, Dereference(input_table, cxlumn_id, pos_list.rows))
           reference_segment == get_segment(input_table, 0, cxlumn_id)
       IN OutputSegment(side, cxlumn_id, StoredTable(reference_segment.referenced_table), 0,
                        reference_segment.referenced_cxlumn_id, new_pos_list)
  ELSE OutputSegment(side, cxlumn_id, input_table, 0, cxlumn_id, pos_list)

\* the segment _write_output_chunks makes for column cxlumn_id when `done` columns exist
write_output_segment(done, side, input_table, cxlumn_id, pos_list) ==
  IF input_table.type = "References"
  THEN IF chunk_count(input_table) > 0
       THEN LET new_pos_list == PosList(3 + done, Dereference(input_table, cxlumn_id, pos_list.rows))
                reference_segment == get_segment(input_table, 0, cxlumn_id)
            IN OutputSegment(side, cxlumn_id, StoredTable(reference_segment.referenced_table), 0,
                             reference_segment.referenced_cxlumn_id, new_pos_list)
       ELSE OutputSegment(side, cxlumn_id, create_dummy_table(input_table.cxlumn_definitions),
                          3 + done, cxlumn_id, pos_list)
  ELSE OutputSegment(side, cxlumn_id, input_table, 0, cxlumn_id, pos_list)

RECURSIVE write_output_chunks(_, _, _, _, _)
write_output_chunks(columns, side, input_table, pos_list, cxlumn_id) ==
  IF cxlumn_id >= cxlumn_count(input_table) THEN columns
  ELSE write_output_chunks(
         Append(columns, write_output_segment(Len(columns), side, input_table, cxlumn_id, pos_list)),
         side, input_table, pos_list, cxlumn_id + 1)

\* ---- actions of JoinNestedLoop::_on_execute
OtherThanJoin == <<dictVars, histVars, stringVars, dpVars, restVars>>
JoinInputs == <<mode, predicate_condition, left_in_table, right_in_table>>

left_may_produce_null == mode \in {"Right", "Outer"}
right_may_produce_null == mode \in {"Left", "Outer"}
\* the column definitions copied from the input without the widening
WidenedDefinitions_not_widened(t, may_produce_null) ==
  [k \in 1..cxlumn_count(t) |->
     CxlumnDefinition(t.cxlumn_definitions[k].name, column_is_nullable(t, k - 1))]

WidenedDefinitions(t, may_produce_null) ==
  [k \in 1..cxlumn_count(t) |->
     CxlumnDefinition(t.cxlumn_definitions[k].name,
                      may_produce_null \/ column_is_nullable(t, k - 1))]

create_table_structure ==
  /\ pc = "create_table_structure"
  /\ output_cxlumn_definitions' =
       WidenedDefinitions(left_in_table, left_may_produce_null) \o
       WidenedDefinitions(right_in_table, right_may_produce_null)
  /\ pc' = "perform_join"
  /\ UNCHANGED <<JoinInputs, pos_list_left, pos_list_right, right_matches, chunk_id_left,
                 output_segments, OtherThanJoin>>

\* _perform_join up to the scan of the left chunks
perform_join ==
  /\ pc = "perform_join"
  /\ pos_list_left' = <<>>
  /\ pos_list_right' = <<>>
  /\ right_matches' = [k \in 1..chunk_count(right_table) |-> <<>>]
  /\ chunk_id_left' = 0
  /\ pc' = IF chunk_count(left_table) = 0 THEN "unmatched_right" ELSE "scan_left_chunk"
  /\ UNCHANGED <<JoinInputs, output_cxlumn_definitions, output_segments, OtherThanJoin>>

\* one round of the loop over the left chunks
scan_left_chunk ==
  /\ pc = "scan_left_chunk"
  /\ chunk_id_left < chunk_count(left_table)
  /\ LET column_left == get_segment(left_table, chunk_id_left, left_cxlumn_id)
         left_matches == IF is_outer_join THEN Resize(<<>>, segment_size(column_left)) ELSE <<>>
         st == scan_right_chunks(chunk_id_left, 0,
                 [pl |-> pos_list_left, pr |-> pos_list_right, lm |-> left_matches,
                  rms |-> right_matches])
         unmatched == IF is_outer_join THEN UnmatchedLeft(chunk_id_left, st.lm) ELSE <<>>
     IN /\ pos_list_left' = st.pl \o unmatched
        /\ pos_list_right' = st.pr \o NullRows(Len(unmatched))
        /\ right_matches' = st.rms
  /\ chunk_id_left' = chunk_id_left + 1
  /\ pc' = IF chunk_id_left + 1 < chunk_count(left_table) THEN "scan_left_chunk"
           ELSE "unmatched_right"
  /\ UNCHANGED <<JoinInputs, output_cxlumn_definitions, output_segments, OtherThanJoin>>

\* The reads _right_matches[chunk_id_right][chunk_offset] of the Full Outer loop
\* that lie beyond the end of the vector: the vector of a right chunk is resized
\* only inside the loop over the left chunks.
OutOfBoundsReads ==
  {row \in RowIDsOf(right_table) : row.chunk_offset >= Len(right_matches[row.chunk_id + 1])}

\* the unmatched right rows when a read beyond the end yields garbage[row]
UnmatchedRight(garbage) ==
  SelectSeq(AllRows(right_table, 0),
            LAMBDA row : ~(IF row \in OutOfBoundsReads THEN garbage[row]
                           ELSE right_matches[row.chunk_id + 1][row.chunk_offset + 1]))

add_unmatched_right ==
  /\ pc = "unmatched_right"
  /\ \/ /\ mode # "Outer"
        /\ pc' = "write_output"
        /\ UNCHANGED <<pos_list_left, pos_list_right>>
     \/ /\ mode = "Outer"
        /\ \E garbage \in [OutOfBoundsReads -> BOOLEAN] :
             LET unmatched == UnmatchedRight(garbage)
             IN /\ pos_list_left' = pos_list_left \o NullRows(Len(unmatched))
                /\ pos_list_right' = pos_list_right \o unmatched
        /\ pc' = "write_output"
     \/ /\ mode = "Outer"
        /\ OutOfBoundsReads # {}
        /\ pc' = "crashed"
        /\ UNCHANGED <<pos_list_left, pos_list_right>>
  /\ UNCHANGED <<JoinInputs, output_cxlumn_definitions, right_matches, chunk_id_left,
                 output_segments, OtherThanJoin>>

write_output ==
  /\ pc = "write_output"
  /\ LET pl == PosList(1, pos_list_left)
         pr == PosList(2, pos_list_right)
         left_side == IF mode = "Right" THEN "right_in_table" ELSE "left_in_table"
         right_side == IF mode = "Right" THEN "left_in_table" ELSE "right_in_table"
     IN output_segments' =
          IF mode = "Right"
          THEN write_output_chunks(write_output_chunks(<<>>, right_side, right_table, pr, 0),
                                   left_side, left_table, pl, 0)
          ELSE write_output_chunks(write_output_chunks(<<>>, left_side, left_table, pl, 0),
                                   right_side, right_table, pr, 0)
  /\ pc' = "done"
  /\ UNCHANGED <<JoinInputs, output_cxlumn_definitions, pos_list_left, pos_list_right,
                 right_matches, chunk_id_left, OtherThanJoin>>

JoinNext ==
  \/ create_table_structure
  \/ perform_join
  \/ scan_left_chunk
  \/ add_unmatched_right
  \/ write_output

\* ---- the initial states: an operator that was constructed and not yet executed
DictIdle ==
  /\ value_column = [values |-> <<>>, null_values |-> <<>>, is_nullable |-> FALSE]
  /\ dpc = "idle"
  /\ dictionary = <<>>
  /\ attribute_vector = <<>>
  /\ null_value_id = 0
  /\ max_value = 0

JoinNotExecuted ==
  /\ pc = "create_table_structure"
  /\ output_cxlumn_definitions = <<>>
  /\ pos_list_left = <<>>
  /\ pos_list_right = <<>>
  /\ right_matches = <<>>
  /\ chunk_id_left = 0
  /\ output_segments = <<>>

\* any predicate condition over one-column Data tables holding any values, or an
\* equi-join over stored tables and References tables on them
InitJoin ==
  /\ mode \in JoinModes
  /\ \/ /\ predicate_condition \in PredicateConditions
        /\ left_in_table \in DataTables("L")
        /\ right_in_table \in DataTables("R")
     \/ /\ predicate_condition = "Equals"
        /\ left_in_table \in StoredTables \cup ReferencesTables
        /\ right_in_table \in StoredTables \cup ReferencesTables
  /\ JoinNotExecuted
  /\ DictIdle
  /\ HistIdle
  /\ StringAndDpIdle
  /\ RestIdle

SpecJoin == InitJoin /\ [][JoinNext]_vars

\* ------------------------------------------------ properties of JoinNestedLoop
\* the position lists seen from the two inputs (Right mode swaps them back)
LeftRows == IF mode = "Right" THEN pos_list_right ELSE pos_list_left
RightRows == IF mode = "Right" THEN pos_list_left ELSE pos_list_right
OutputRowCount == Len(pos_list_left)

\* the join value of a row of an input table
JoinCell(t, row) == SegmentCell(get_segment(t, row.chunk_id, 0), row.chunk_offset)

\* row l of the left input and row r of the right input satisfy the join predicate
Satisfies(l, r) ==
  /\ ~JoinCell(left_in_table, l).is_null
  /\ ~JoinCell(right_in_table, r).is_null
  /\ Comparator(predicate_condition, JoinCell(left_in_table, l).value,
                JoinCell(right_in_table, r).value)

Emitted(l, r) == \E i \in 1..OutputRowCount : LeftRows[i] = l /\ RightRows[i] = r

\* C1: in Inner mode the output has at most |L|*|R| rows, every emitted pair
\* consists of two rows with non-NULL join values that satisfy the predicate, and
\* for Equals every pair of rows with equal join values is emitted.
C1_InnerJoin ==
  (pc = "done" /\ mode = "Inner") =>
    /\ Len(pos_list_left) = Len(pos_list_right)
    /\ OutputRowCount <= row_count(left_in_table) * row_count(right_in_table)
    /\ \A i \in 1..OutputRowCount :
         /\ LeftRows[i] \in RowIDsOf(left_in_table)
         /\ RightRows[i] \in RowIDsOf(right_in_table)
         /\ Satisfies(LeftRows[i], RightRows[i])
    /\ predicate_condition = "Equals" =>
         \A l \in RowIDsOf(left_in_table) : \A r \in RowIDsOf(right_in_table) :
           Satisfies(l, r) => Emitted(l, r)

\* an Inner equi-join over several chunks on both sides that emitted a pair and
\* skipped a NULL
C1_Witness ==
  /\ pc = "done" /\ mode = "Inner" /\ predicate_condition = "Equals"
  /\ chunk_count(left_in_table) = 2 /\ chunk_count(right_in_table) = 2
  /\ OutputRowCount = 1
  /\ \E r \in RowIDsOf(right_in_table) : JoinCell(right_in_table, r).is_null

\* an Inner join with an inequality that emitted the full cross product
C1_WitnessFull ==
  /\ pc = "done" /\ mode = "Inner" /\ predicate_condition = "LessThan"
  /\ row_count(left_in_table) = 2 /\ row_count(right_in_table) = 2
  /\ OutputRowCount = row_count(left_in_table) * row_count(right_in_table)

\* the execution ended: with an output chunk, or, with none, by a fault of the process
JoinEnded == pc \in {"done", "crashed"}

\* C2: Left and Outer mode keep every row of the left input, Right and Outer
\* mode keep every row of the right input, for any number of chunks.
C2_OuterPreserves ==
  JoinEnded =>
    /\ mode \in {"Left", "Outer"} =>
         \A l \in RowIDsOf(left_in_table) : \E i \in 1..OutputRowCount : LeftRows[i] = l
    /\ mode \in {"Right", "Outer"} =>
         \A r \in RowIDsOf(right_in_table) : \E i \in 1..OutputRowCount : RightRows[i] = r

\* how often a row of a side appears in the output, and how often NULL-extended
Appearances(rows, row) == Cardinality({i \in 1..OutputRowCount : rows[i] = row})
NullExtended(rows, others, row) ==
  Cardinality({i \in 1..OutputRowCount : rows[i] = row /\ RowIsNull(others[i])})

\* C3: in the outer modes a row of a preserved side without a match appears
\* exactly once, NULL-extended; one with a match is never NULL-extended.
C3_UnmatchedOnce ==
  JoinEnded =>
    /\ mode \in {"Left", "Outer"} =>
         \A l \in RowIDsOf(left_in_table) :
           IF \E r \in RowIDsOf(right_in_table) : Satisfies(l, r)
           THEN NullExtended(LeftRows, RightRows, l) = 0
           ELSE Appearances(LeftRows, l) = 1 /\ NullExtended(LeftRows, RightRows, l) = 1
    /\ mode \in {"Right", "Outer"} =>
         \A r \in RowIDsOf(right_in_table) :
           IF \E l \in RowIDsOf(left_in_table) : Satisfies(l, r)
           THEN NullExtended(RightRows, LeftRows, r) = 0
           ELSE Appearances(RightRows, r) = 1 /\ NullExtended(RightRows, LeftRows, r) = 1

\* C4: a row with a NULL join value is in no matched pair, and on a preserved
\* side it is emitted exactly once, NULL-extended.
C4_NullNeverMatches ==
  JoinEnded =>
    /\ \A i \in 1..OutputRowCount :
         (~RowIsNull(LeftRows[i]) /\ ~RowIsNull(RightRows[i])) =>
           /\ ~JoinCell(left_in_table, LeftRows[i]).is_null
           /\ ~JoinCell(right_in_table, RightRows[i]).is_null
    /\ mode \in {"Left", "Outer"} =>
         \A l \in RowIDsOf(left_in_table) :
           JoinCell(left_in_table, l).is_null =>
             Appearances(LeftRows, l) = 1 /\ NullExtended(LeftRows, RightRows, l) = 1
    /\ mode \in {"Right", "Outer"} =>
         \A r \in RowIDsOf(right_in_table) :
           JoinCell(right_in_table, r).is_null =>
             Appearances(RightRows, r) = 1 /\ NullExtended(RightRows, LeftRows, r) = 1

\* the output segments written for the columns of one input
SegmentsOf(side) == {k \in 1..Len(output_segments) : output_segments[k].input_table = side}
InputTable(side) == IF side = "left_in_table" THEN left_in_table ELSE right_in_table
RowsOf(side) == IF side = "left_in_table" THEN LeftRows ELSE RightRows
MayProduceNull(side) ==
  IF side = "left_in_table" THEN mode \in {"Right", "Outer"} ELSE mode \in {"Left", "Outer"}
Sides == {"left_in_table", "right_in_table"}

\* C5: the output has the columns of the left input, in order, then those of the
\* right input, in order, in every mode; the segments follow the same order, each
\* built from the position list that holds rows of its own input; a column is
\* nullable iff the input column is or its side can be NULL-extended.
C5_OutputSchema ==
  pc = "done" =>
    LET nl == cxlumn_count(left_in_table)
        nr == cxlumn_count(right_in_table)
        side(k) == IF k <= nl THEN "left_in_table" ELSE "right_in_table"
        col(k) == IF k <= nl THEN k - 1 ELSE k - nl - 1
    IN /\ Len(output_cxlumn_definitions) = nl + nr
       /\ Len(output_segments) = nl + nr
       /\ \A k \in 1..(nl + nr) :
            LET in == InputTable(side(k))
                seg == output_segments[k]
            IN /\ output_cxlumn_definitions[k].name = in.cxlumn_definitions[col(k) + 1].name
               /\ output_cxlumn_definitions[k].nullable =
                    (column_is_nullable(in, col(k)) \/ MayProduceNull(side(k)))
               /\ seg.input_table = side(k)
               /\ seg.cxlumn_id = col(k)
               /\ in.type = "Data" =>
                    /\ seg.referenced_table = in
                    /\ seg.referenced_cxlumn_id = col(k)
                    /\ seg.pos_list.rows = RowsOf(side(k))
               /\ \A i \in 1..OutputRowCount :
                    RowIsNull(RowsOf(side(k))[i]) \/ RowsOf(side(k))[i] \in RowIDsOf(in)
               /\ Len(seg.pos_list.rows) = OutputRowCount
               /\ \A i \in 1..OutputRowCount :
                    RowIsNull(seg.pos_list.rows[i]) <=>
                      \/ RowIsNull(RowsOf(side(k))[i])
                      \/ /\ in.type = "References"
                         /\ RowIsNull(get_segment(in, RowsOf(side(k))[i].chunk_id, col(k))
                                        .pos_list[RowsOf(side(k))[i].chunk_offset + 1])

\* a Right join of a two-column input with a one-column-wider schema on the other
\* side, with output rows, a nullable and a non-nullable output column
C5_Witness ==
  /\ pc = "done" /\ mode = "Right"
  /\ left_in_table.type = "References" /\ right_in_table.type = "Data"
  /\ cxlumn_count(left_in_table) = 2 /\ cxlumn_count(right_in_table) = 2
  /\ OutputRowCount = 2
  /\ output_cxlumn_definitions[1].nullable /\ ~output_cxlumn_definitions[3].nullable

\* C6: the two position lists have the same length, every output segment has that
\* length, and every position is NULL_ROW_ID or lies inside the referenced table.
C6_PositionsValid ==
  pc = "done" =>
    /\ Len(pos_list_left) = Len(pos_list_right)
    /\ \A k \in 1..Len(output_segments) :
         LET seg == output_segments[k]
         IN /\ Len(seg.pos_list.rows) = Len(pos_list_left)
            /\ \A i \in 1..Len(seg.pos_list.rows) :
                 \/ seg.pos_list.rows[i] = NULL_ROW_ID
                 \/ seg.pos_list.rows[i] \in RowIDsOf(seg.referenced_table)

\* C7 as stated: all output segments of one input side hold the same PosList object
C7_SharedPosList ==
  pc = "done" =>
    \A j, k \in 1..Len(output_segments) :
      output_segments[j].input_table = output_segments[k].input_table =>
        output_segments[j].pos_list.id = output_segments[k].pos_list.id

\* C7 as amended: the segments of a side share one PosList object, the position
\* list of the join for that side, when the input is a Data table or a References
\* table without chunks; for a References input with chunks every column gets a
\* PosList object of its own, of the length of the join's position lists.
C7_SharedPosListAmended ==
  pc = "done" =>
    \A j, k \in 1..Len(output_segments) :
      LET a == output_segments[j]
          b == output_segments[k]
          in == InputTable(a.input_table)
      IN (a.input_table = b.input_table) =>
           IF in.type = "References" /\ chunk_count(in) > 0
           THEN /\ (j # k => a.pos_list.id # b.pos_list.id)
                /\ a.pos_list.id \notin {1, 2}
                /\ Len(a.pos_list.rows) = OutputRowCount
           ELSE /\ a.pos_list.id = b.pos_list.id
                /\ a.pos_list.id \in {1, 2}
                /\ a.pos_list.rows = RowsOf(a.input_table)

\* both cases at once: a two-column References input with chunks and a
\* two-column Data input, with output rows
C7_Witness ==
  /\ pc = "done"
  /\ left_in_table.type = "References" /\ chunk_count(left_in_table) > 0
  /\ right_in_table.type = "Data" /\ cxlumn_count(right_in_table) = 2
  /\ OutputRowCount > 0
  /\ output_segments[1].pos_list.id # output_segments[2].pos_list.id
  /\ output_segments[3].pos_list.id = output_segments[4].pos_list.id

\* C8: for a References input with chunks, every position (k, o) of a column c is
\* replaced by the RowID at offset o of the PosList of the input's segment (k, c),
\* NULL stays NULL, and the output segment references the table and column which
\* that input segment references, whatever the chunk k.
C8_Flattened ==
  pc = "done" =>
    \A k \in 1..Len(output_segments) :
      LET seg == output_segments[k]
          in == InputTable(seg.input_table)
          rows == RowsOf(seg.input_table)
      IN (in.type = "References" /\ chunk_count(in) > 0) =>
           /\ Len(seg.pos_list.rows) = Len(rows)
           /\ \A i \in 1..Len(rows) :
                IF RowIsNull(rows[i]) THEN seg.pos_list.rows[i] = NULL_ROW_ID
                ELSE LET input_segment == get_segment(in, rows[i].chunk_id, seg.cxlumn_id)
                         stored == input_segment.pos_list[rows[i].chunk_offset + 1]
                     IN /\ seg.pos_list.rows[i] = stored
                        /\ ~RowIsNull(stored) =>
                             /\ seg.referenced_table.name = input_segment.referenced_table
                             /\ seg.referenced_cxlumn_id = input_segment.referenced_cxlumn_id

\* C9: the output segments of a References input without chunks reference a
\* freshly created dummy Data table with the input's column definitions, and all
\* their positions are NULL_ROW_ID.
C9_DummyTable ==
  pc = "done" =>
    \A k \in 1..Len(output_segments) :
      LET seg == output_segments[k]
          in == InputTable(seg.input_table)
      IN (in.type = "References" /\ chunk_count(in) = 0) =>
           /\ seg.referenced_table.type = "Data"
           /\ seg.referenced_table.cxlumn_definitions = in.cxlumn_definitions
           /\ chunk_count(seg.referenced_table) = 0
           /\ seg.table_id # 0
           /\ \A j \in 1..Len(output_segments) : j # k => output_segments[j].table_id # seg.table_id
           /\ \A i \in 1..Len(seg.pos_list.rows) : seg.pos_list.rows[i] = NULL_ROW_ID
           /\ \A i \in 1..OutputRowCount : RowsOf(seg.input_table)[i] = NULL_ROW_ID

\* a References input without chunks on the NULL-extended side of a join that
\* emitted rows
C9_Witness ==
  /\ pc = "done" /\ mode \in {"Left", "Right"}
  /\ \E s \in Sides :
       /\ InputTable(s).type = "References" /\ chunk_count(InputTable(s)) = 0
       /\ SegmentsOf(s) # {}
       /\ OutputRowCount = 2

\* --------------------------------------------------------- DictionaryEncoder
DictValues == 1..MaxDictVal

\* a ValueColumn<T>: values, and null_values when it is nullable (a NULL row
\* still stores some value)
ValueColumns(max_len) ==
  UNION {{[values |-> v, null_values |-> <<>>, is_nullable |-> FALSE] :
            v \in [1..n -> DictValues]} \cup
         {[values |-> v, null_values |-> nv, is_nullable |-> TRUE] :
            v \in [1..n -> DictValues], nv \in [1..n -> BOOLEAN]} : n \in 0..max_len}

Swap(v, i, j) == [v EXCEPT ![i] = v[j], ![j] = v[i]]

\* erasing as many elements from the back as there are NULL flags, without
\* swapping the flagged values there first
swap_nulls_to_back_erases_tail(dict, null_values, i, erase_from_here) ==
  SubSeq(dict, 1, Len(dict) - Cardinality({r \in 1..Len(null_values) : null_values[r]}))

\* The loop "swap values to back if value is null": dict_it and null_it walk
\* backwards from position i; erase_from_here is the number of kept elements.
\* Returns the dictionary after dictionary.erase(erase_from_here_it, end()).
RECURSIVE swap_nulls_to_back(_, _, _, _)
swap_nulls_to_back(dict, null_values, i, erase_from_here) ==
  IF i = 0 THEN SubSeq(dict, 1, erase_from_here)
  ELSE IF null_values[i]
       THEN swap_nulls_to_back(Swap(dict, i, erase_from_here), null_values, i - 1,
                               erase_from_here - 1)
       ELSE swap_nulls_to_back(dict, null_values, i - 1, erase_from_here)

\* std::sort, as an insertion sort
RECURSIVE Insert(_, _)
Insert(sorted, x) ==
  IF sorted = <<>> THEN <<x>>
  ELSE IF x <= Head(sorted) THEN <<x>> \o sorted
       ELSE <<Head(sorted)>> \o Insert(Tail(sorted), x)
RECURSIVE Sort(_)
Sort(v) == IF v = <<>> THEN <<>> ELSE Insert(Sort(Tail(v)), Head(v))

\* a dictionary that is sorted but keeps its duplicates
Unique_keeps_duplicates(v) == v

\* erase(std::unique(...), end()): drops every element equal to its predecessor
RECURSIVE Unique(_)
Unique(v) ==
  IF Len(v) <= 1 THEN v
  ELSE IF v[1] = v[2] THEN Unique(Tail(v))
       ELSE <<v[1]>> \o Unique(Tail(v))

\* std::lower_bound: binary search for the first element not less than value,
\* in the half-open range [first, first + count) of 0-based positions
RECURSIVE lower_bound(_, _, _, _)
lower_bound(dict, first, count, value) ==
  IF count <= 0 THEN first
  ELSE LET step == count \div 2
       IN IF dict[first + step + 1] < value
          THEN lower_bound(dict, first + step + 1, count - (step + 1), value)
          ELSE lower_bound(dict, first, step, value)

\* std::upper_bound in place of std::lower_bound
get_value_id_upper_bound(dict, value) == lower_bound(dict, 0, Len(dict), value + 1)

get_value_id(dict, value) == lower_bound(dict, 0, Len(dict), value)

OtherThanDict == <<joinVars, histVars, stringVars, dpVars, restVars>>

\* _on_encode: the dictionary starts as a copy of the values
on_encode ==
  /\ dpc = "on_encode"
  /\ dictionary' = value_column.values
  /\ dpc' = "remove_nulls"
  /\ UNCHANGED <<value_column, attribute_vector, null_value_id, max_value, OtherThanDict>>

remove_null_values ==
  /\ dpc = "remove_nulls"
  /\ dictionary' = IF value_column.is_nullable
                   THEN swap_nulls_to_back(dictionary, value_column.null_values,
                                           Len(dictionary), Len(dictionary))
                   ELSE dictionary
  /\ dpc' = "sort_unique"
  /\ UNCHANGED <<value_column, attribute_vector, null_value_id, max_value, OtherThanDict>>

sort_unique ==
  /\ dpc = "sort_unique"
  /\ dictionary' = Unique(Sort(dictionary))
  /\ null_value_id' = Len(dictionary')
  /\ dpc' = "attribute_vector"
  /\ UNCHANGED <<value_column, attribute_vector, max_value, OtherThanDict>>

fill_attribute_vector ==
  /\ dpc = "attribute_vector"
  /\ attribute_vector' =
       [r \in 1..Len(value_column.values) |->
          IF value_column.is_nullable /\ value_column.null_values[r] THEN null_value_id
          ELSE get_value_id(dictionary, value_column.values[r])]
  /\ dpc' = "compress"
  /\ UNCHANGED <<value_column, dictionary, null_value_id, max_value, OtherThanDict>>

compress_and_construct ==
  /\ dpc = "compress"
  /\ max_value' = Len(dictionary) + 1
  /\ dpc' = "encoded"
  /\ UNCHANGED <<value_column, dictionary, attribute_vector, null_value_id, OtherThanDict>>

DictNext ==
  \/ on_encode
  \/ remove_null_values
  \/ sort_unique
  \/ fill_attribute_vector
  \/ compress_and_construct

JoinIdle ==
  /\ mode = "Inner"
  /\ predicate_condition = "Equals"
  /\ left_in_table = Table("L", "Data", <<>>, <<>>)
  /\ right_in_table = Table("R", "Data", <<>>, <<>>)
  /\ pc = "idle"
  /\ output_cxlumn_definitions = <<>>
  /\ pos_list_left = <<>>
  /\ pos_list_right = <<>>
  /\ right_matches = <<>>
  /\ chunk_id_left = 0
  /\ output_segments = <<>>

InitDict ==
  /\ value_column \in ValueColumns(MaxLen)
  /\ dpc = "on_encode"
  /\ dictionary = <<>>
  /\ attribute_vector = <<>>
  /\ null_value_id = 0
  /\ max_value = 0
  /\ JoinIdle
  /\ HistIdle
  /\ StringAndDpIdle
  /\ RestIdle

SpecDict == InitDict /\ [][DictNext]_vars

\* ------------------------------------------- properties of DictionaryEncoder
IsNullRow(r) == value_column.is_nullable /\ value_column.null_values[r]

\* C10: the attribute vector is as long as the input; a non-NULL row decodes to
\* its value through the dictionary; a NULL row holds null_value_id, which is
\* dictionary.size().
C10_RoundTrip ==
  dpc = "encoded" =>
    /\ Len(attribute_vector) = Len(value_column.values)
    /\ null_value_id = Len(dictionary)
    /\ \A r \in 1..Len(value_column.values) :
         IF IsNullRow(r) THEN attribute_vector[r] = null_value_id
         ELSE /\ attribute_vector[r] \in 0..(Len(dictionary) - 1)
              /\ dictionary[attribute_vector[r] + 1] = value_column.values[r]

\* the column [2, 1, 2, NULL, 3] (the shape of [5, 2, 5, NULL, 8]) encoded as
\* dictionary [1, 2, 3], null_value_id 3, attribute vector [1, 0, 1, 3, 2]
C10_Witness ==
  /\ dpc = "encoded"
  /\ value_column.is_nullable
  /\ Len(value_column.values) = 5
  /\ \A r \in 1..5 : (r # 4 => value_column.values[r] = <<2, 1, 2, 0, 3>>[r])
  /\ value_column.null_values = <<FALSE, FALSE, FALSE, TRUE, FALSE>>
  /\ dictionary = <<1, 2, 3>>
  /\ null_value_id = 3
  /\ attribute_vector = <<1, 0, 1, 3, 2>>

\* C11: the dictionary is strictly ascending; every attribute-vector entry lies
\* in [0, dictionary.size()]; the entry dictionary.size() occurs only at NULL
\* rows; max_value, handed to the vector compressor, is dictionary.size() + 1
\* and no entry is greater.
C11_DictionaryInvariants ==
  dpc = "encoded" =>
    /\ \A i \in 1..(Len(dictionary) - 1) : dictionary[i] < dictionary[i + 1]
    /\ \A r \in 1..Len(attribute_vector) :
         /\ attribute_vector[r] \in 0..Len(dictionary)
         /\ attribute_vector[r] = Len(dictionary) => IsNullRow(r)
         /\ attribute_vector[r] <= max_value
    /\ max_value = Len(dictionary) + 1

\* a column with a repeated value and a NULL row, encoded
C11_Witness ==
  /\ dpc = "encoded"
  /\ Len(dictionary) = 2
  /\ Len(attribute_vector) = MaxLen
  /\ \E r \in 1..MaxLen : attribute_vector[r] = Len(dictionary)
  /\ \E r, q \in 1..MaxLen : r # q /\ attribute_vector[r] = attribute_vector[q]
                                /\ attribute_vector[r] < Len(dictionary)

\* the values found at positions that are not flagged NULL
NonNullValues ==
  {value_column.values[r] : r \in {q \in 1..Len(value_column.values) : ~IsNullRow(q)}}

Range(v) == {v[i] : i \in 1..Len(v)}

\* C12: once the NULL positions are removed, and in the encoded column, the
\* dictionary of a nullable column holds exactly the distinct values found at
\* positions not flagged NULL; the removal drops one element per NULL flag.
C12_DictionaryExcludesNulls ==
  (value_column.is_nullable /\ dpc \in {"sort_unique", "attribute_vector", "compress", "encoded"}) =>
    /\ Range(dictionary) = NonNullValues
    /\ dpc = "sort_unique" =>
         Len(dictionary) = Cardinality({r \in 1..Len(value_column.values) : ~IsNullRow(r)})
    /\ dpc # "sort_unique" => Len(dictionary) = Cardinality(NonNullValues)

\* interleaved NULL flags, and a value that occurs only at NULL positions
C12_Witness ==
  /\ dpc = "encoded"
  /\ value_column.is_nullable
  /\ value_column.null_values = <<TRUE, FALSE, TRUE, FALSE, FALSE>>
  /\ value_column.values = <<3, 1, 3, 2, 1>>
  /\ dictionary = <<1, 2>>

\* ================================================ EqualNumElementsHistogram
HistValues == 1..MaxHistVal

\* the columns a histogram is generated for (an empty column has no distinct value)
HistColumns == UNION {[1..n -> HistValues] : n \in 0..MaxHistRows}

\* the values an estimate is asked for: below, inside and above the column's domain
QueryValues == 0..(MaxHistVal + 1)

\* the BucketID returned when no bucket fits
INVALID_BUCKET_ID == -1

\* a cardinality is a quotient of two integers (the source computes it in float)
Frac(n, d) == [num |-> n, den |-> d]
FracEq(a, b) == a.num * b.den = b.num * a.den
FracLeq(a, b) == a.num * b.den <= b.num * a.den

RECURSIVE SumSeq(_, _, _)
\* std::accumulate over the 0-based positions [first, last)
SumSeq(v, first, last) == IF first >= last THEN 0 ELSE v[first + 1] + SumSeq(v, first + 1, last)

\* std::upper_bound: binary search for the first element greater than value, in
\* the half-open range [first, first + count) of 0-based positions
RECURSIVE upper_bound(_, _, _, _)
upper_bound(v, first, count, value) ==
  IF count <= 0 THEN first
  ELSE LET step == count \div 2
       IN IF ~(value < v[first + step + 1])
          THEN upper_bound(v, first + step + 1, count - (step + 1), value)
          ELSE upper_bound(v, first, step, value)

num_buckets == Len(counts)
bucket_min(index) == mins[index + 1]
bucket_max(index) == maxs[index + 1]
bucket_count(index) == counts[index + 1]
\* every bucket said to hold the same number of distinct values
bucket_count_distinct_no_extra(index) == distinct_count_per_bucket

\* every bucket said to hold one distinct value
bucket_count_distinct_one(index) == 1

bucket_count_distinct(index) ==
  distinct_count_per_bucket + (IF index < num_buckets_with_extra_value THEN 1 ELSE 0)
total_count == SumSeq(counts, 0, Len(counts))
total_count_distinct == distinct_count_per_bucket * num_buckets + num_buckets_with_extra_value

\* a bucket search that takes the first bucket whose max is not below the value
\* without looking at that bucket's min
bucket_for_value_ignores_min(value) ==
  LET index == lower_bound(maxs, 0, Len(maxs), value)
  IN IF index = Len(maxs) THEN INVALID_BUCKET_ID ELSE index

bucket_for_value(value) ==
  LET index == lower_bound(maxs, 0, Len(maxs), value)
  IN IF index = Len(maxs) \/ value < bucket_min(index) \/ value > bucket_max(index)
     THEN INVALID_BUCKET_ID
     ELSE index

\* the bucket after the first bucket whose max is greater than the value
upper_bound_for_value_one_past(value) ==
  LET index == upper_bound(maxs, 0, Len(maxs), value)
  IN IF index = Len(maxs) THEN INVALID_BUCKET_ID ELSE index + 1

upper_bound_for_value(value) ==
  LET index == upper_bound(maxs, 0, Len(maxs), value)
  IN IF index = Len(maxs) THEN INVALID_BUCKET_ID ELSE index

\* AbstractHistogram::min / max: the min of the first and the max of the last bucket
histogram_min == bucket_min(0)
histogram_max == bucket_max(num_buckets - 1)

\* AbstractHistogram::can_prune
can_prune(value, condition) ==
  CASE condition = "Equals" -> bucket_for_value(value) = INVALID_BUCKET_ID
    [] condition = "LessThan" -> value <= histogram_min

\* the part of a bucket below value: (value - min) / (max + 1 - min) * count
bucket_share(index, value) ==
  Frac((value - bucket_min(index)) * bucket_count(index),
       bucket_max(index) + 1 - bucket_min(index))

\* AbstractHistogram::estimate_cardinality for LessThan
estimate_less_than(value) ==
  IF value > histogram_max THEN Frac(total_count, 1)
  ELSE IF value <= histogram_min THEN Frac(0, 1)
  ELSE LET index == bucket_for_value(value)
       IN IF index = INVALID_BUCKET_ID
          THEN \* value lies in a gap: all buckets before the next bucket
               Frac(SumSeq(counts, 0, upper_bound_for_value(value)), 1)
          ELSE LET share == bucket_share(index, value)
               IN Frac(SumSeq(counts, 0, index) * share.den + share.num, share.den)

\* AbstractHistogram::estimate_cardinality
estimate_cardinality(value, condition) ==
  IF can_prune(value, condition) THEN Frac(0, 1)
  ELSE CASE condition = "Equals" ->
              LET index == bucket_for_value(value)
              IN Frac(bucket_count(index), bucket_count_distinct(index))
         [] condition = "LessThan" -> estimate_less_than(value)

\* the buckets _generate appends from bucket_index on: <<_mins, _maxs, _counts>>
RECURSIVE generate_buckets(_, _, _, _)
generate_buckets(bucket_index, begin_index, the_num_buckets, per_bucket_and_extra) ==
  IF ~(bucket_index < the_num_buckets) THEN <<<<>>, <<>>, <<>>>>
  ELSE LET end_index == begin_index + per_bucket_and_extra[1] - 1
                          + (IF bucket_index < per_bucket_and_extra[2] THEN 1 ELSE 0)
           current_min == distinct_column[begin_index + 1]
           current_max == distinct_column[end_index + 1]
           rest == generate_buckets(bucket_index + 1, end_index + 1, the_num_buckets,
                                    per_bucket_and_extra)
       IN <<<<current_min>> \o rest[1],
            <<current_max>> \o rest[2],
            <<SumSeq(count_column, begin_index, end_index + 1)>> \o rest[3]>>

OtherThanHist == <<joinVars, dictVars, stringVars, dpVars, restVars>>

\* AbstractHistogram::generate: the sorted distinct values of the column and the
\* number of rows of each
generate ==
  /\ hpc = "generate"
  /\ distinct_column' = Unique(Sort(hist_column))
  /\ count_column' = [i \in 1..Len(distinct_column') |->
                        Cardinality({r \in 1..Len(hist_column) :
                                       hist_column[r] = distinct_column'[i]})]
  /\ hpc' = "_generate"
  /\ UNCHANGED <<hist_column, max_num_buckets, mins, maxs, counts, distinct_count_per_bucket,
                 num_buckets_with_extra_value, query, OtherThanHist>>

\* EqualNumElementsHistogram::_generate; with no distinct value the number of
\* buckets is 0 and the division by it is undefined
equal_num_elements_generate ==
  /\ hpc = "_generate"
  /\ LET distinct_count == Len(distinct_column)
         the_num_buckets == IF distinct_count < max_num_buckets THEN distinct_count
                            ELSE max_num_buckets
     IN IF the_num_buckets = 0
        THEN /\ hpc' = "crashed"
             /\ UNCHANGED <<mins, maxs, counts, distinct_count_per_bucket,
                            num_buckets_with_extra_value>>
        ELSE /\ distinct_count_per_bucket' = distinct_count \div the_num_buckets
             /\ num_buckets_with_extra_value' = distinct_count % the_num_buckets
             /\ LET buckets == generate_buckets(0, 0, the_num_buckets,
                                                <<distinct_count_per_bucket',
                                                  num_buckets_with_extra_value'>>)
                IN /\ mins' = buckets[1]
                   /\ maxs' = buckets[2]
                   /\ counts' = buckets[3]
             /\ hpc' = "generated"
  /\ UNCHANGED <<hist_column, max_num_buckets, distinct_column, count_column, query,
                 OtherThanHist>>

\* a caller asks the generated histogram for can_prune and estimate_cardinality
estimate ==
  /\ hpc = "generated"
  /\ \E value \in QueryValues, condition \in {"Equals", "LessThan"} :
       query' = [value |-> value, condition |-> condition,
                 cardinality |-> estimate_cardinality(value, condition),
                 can_prune |-> can_prune(value, condition)]
  /\ hpc' = "estimated"
  /\ UNCHANGED <<hist_column, max_num_buckets, distinct_column, count_column, mins, maxs,
                 counts, distinct_count_per_bucket, num_buckets_with_extra_value,
                 OtherThanHist>>

HistNext ==
  \/ generate
  \/ equal_num_elements_generate
  \/ estimate

InitHist ==
  /\ hist_column \in HistColumns
  /\ max_num_buckets \in 1..MaxBuckets
  /\ distinct_column = <<>>
  /\ count_column = <<>>
  /\ mins = <<>>
  /\ maxs = <<>>
  /\ counts = <<>>
  /\ distinct_count_per_bucket = 0
  /\ num_buckets_with_extra_value = 0
  /\ hpc = "generate"
  /\ query = NoQuery
  /\ JoinIdle
  /\ DictIdle
  /\ StringAndDpIdle
  /\ RestIdle

SpecHist == InitHist /\ [][HistNext]_vars

\* ----------------------------------- properties of EqualNumElementsHistogram
HistGenerated == hpc \in {"generated", "estimated"}

\* the distinct values observed in the column
DistinctValues == Range(hist_column)

\* the value of 0-based rank k among the distinct values
KthDistinct(k) ==
  CHOOSE x \in DistinctValues : Cardinality({y \in DistinctValues : y < x}) = k

Min(a, b) == IF a < b THEN a ELSE b

\* the rank of the first distinct value of bucket i when D distinct values are
\* split over B buckets, the first D mod B of them taking one more
FirstRank(i, D, B) == i * (D \div B) + Min(i, D % B)

BucketIDs == 0..(num_buckets - 1)

C13_WitnessUneven ==
  /\ HistGenerated
  /\ Cardinality(DistinctValues) = 4
  /\ max_num_buckets = 3
  /\ bucket_count_distinct(0) = 2
  /\ bucket_count_distinct(1) = 1
  /\ bucket_count_distinct(2) = 1

\* the buckets whose range [min, max] holds v
OwningBuckets(v) == {i \in BucketIDs : bucket_min(i) <= v /\ v <= bucket_max(i)}

EqualsAsked == hpc = "estimated" /\ query.condition = "Equals"
LessThanAsked == hpc = "estimated" /\ query.condition = "LessThan"

\* C14: for Equals, a value in no bucket's range has estimate 0 and can be
\* pruned; any other value lies in exactly one bucket, is not pruned, and its
\* estimate is that bucket's count over that bucket's distinct count.
C14_EqualsEstimate ==
  EqualsAsked =>
    IF OwningBuckets(query.value) = {}
    THEN query.cardinality.num = 0 /\ query.can_prune
    ELSE /\ Cardinality(OwningBuckets(query.value)) = 1
         /\ ~query.can_prune
         /\ \A i \in OwningBuckets(query.value) :
              FracEq(query.cardinality, Frac(bucket_count(i), bucket_count_distinct(i)))

\* a value in a gap between two buckets was asked for, and pruned
C14_Witness ==
  /\ EqualsAsked
  /\ num_buckets = 2
  /\ bucket_max(0) < query.value
  /\ query.value < bucket_min(1)
  /\ query.can_prune

\* a value inside a bucket of two distinct values and three rows: estimate 3/2
C14_WitnessOwned ==
  /\ EqualsAsked
  /\ hist_column = <<1, 2, 4, 5, 5>>
  /\ max_num_buckets = 2
  /\ query.value = 5
  /\ FracEq(query.cardinality, Frac(3, 2))

RECURSIVE SumEstimates(_)
\* the sum of estimate_cardinality(v, =) over the values of S, as a quotient
SumEstimates(S) ==
  IF S = {} THEN Frac(0, 1)
  ELSE LET v == CHOOSE x \in S : TRUE
           e == estimate_cardinality(v, "Equals")
           rest == SumEstimates(S \ {v})
       IN Frac(e.num * rest.den + rest.num * e.den, e.den * rest.den)

LessThanExpected(v) ==
  LET below == {i \in BucketIDs : bucket_max(i) < v}
      sum_below == SumSeq([i \in 1..num_buckets |->
                             IF (i - 1) \in below THEN counts[i] ELSE 0], 0, num_buckets)
  IN IF OwningBuckets(v) = {} THEN Frac(sum_below, 1)
     ELSE LET i == CHOOSE b \in OwningBuckets(v) : TRUE
              width == bucket_max(i) + 1 - bucket_min(i)
          IN Frac(sum_below * width + (v - bucket_min(i)) * bucket_count(i), width)

\* C16: for LessThan over integers the estimate is the sum of the counts of the
\* buckets with max < v plus (v - min) / (max + 1 - min) * count of the bucket
\* holding v; it is 0, and v is pruned, when v <= the smallest bucket min; it is
\* the row count when v is above the largest bucket max; v is not pruned when
\* it is greater than the column minimum.
C16_LessThanEstimate ==
  LessThanAsked =>
    LET v == query.value
        column_min == CHOOSE x \in DistinctValues : \A y \in DistinctValues : x <= y
    IN /\ FracEq(query.cardinality, LessThanExpected(v))
       /\ v <= bucket_min(0) => (query.cardinality.num = 0 /\ query.can_prune)
       /\ v > bucket_max(num_buckets - 1) =>
            FracEq(query.cardinality, Frac(Len(hist_column), 1))
       /\ v > column_min => ~query.can_prune

\* a value strictly inside the second bucket: one bucket below and a share
C16_Witness ==
  /\ LessThanAsked
  /\ num_buckets >= 2
  /\ bucket_min(1) < query.value
  /\ query.value < bucket_max(1)
  /\ query.cardinality.num * 1 > bucket_count(0) * query.cardinality.den

\* a value in the gap between two buckets: the count of the bucket below
C16_WitnessGap ==
  /\ LessThanAsked
  /\ num_buckets = 2
  /\ bucket_max(0) < query.value
  /\ query.value < bucket_min(1)
  /\ FracEq(query.cardinality, Frac(bucket_count(0), 1))

\* ============================ next_value / previous_value of string histograms
supported_characters == 1..AlphabetSize
first_character == 1
last_character == AlphabetSize

Characters == 0..(AlphabetSize + 1)
Strings == UNION {[1..n -> Characters] : n \in 0..MaxStringLen}

\* std::string::npos
npos == -1

\* a search that looks at the last character only
find_first_not_of_last_only(str, characters) ==
  IF str # <<>> /\ str[Len(str)] \notin characters THEN Len(str) - 1 ELSE npos

\* std::string::find_first_not_of: the 0-based position of the first character
\* of str that is not in characters, or npos
find_first_not_of(str, characters) ==
  LET positions == {i \in 1..Len(str) : str[i] \notin characters}
  IN IF positions = {} THEN npos
     ELSE (CHOOSE i \in positions : \A j \in positions : i <= j) - 1

\* the string without its last character
substr_without_last(str) == SubSeq(str, 1, Len(str) - 1)

\* AbstractHistogram<std::string>::next_value
RECURSIVE next_value(_)
next_value(value) ==
  IF find_first_not_of(value, supported_characters) # npos THEN Failed
  ELSE IF value = <<>> THEN Returned(<<first_character>>)
  ELSE IF find_first_not_of(value, {last_character}) = npos
       THEN Returned(value \o <<first_character>>)
  ELSE IF value[Len(value)] # last_character
       THEN Returned(substr_without_last(value) \o <<value[Len(value)] + 1>>)
  ELSE Returned(next_value(substr_without_last(value)).value \o <<first_character>>)

\* AbstractHistogram<std::string>::previous_value
previous_value(value) ==
  IF find_first_not_of(value, supported_characters) # npos THEN Failed
  ELSE IF value = <<>> THEN Returned(<<>>)
  ELSE IF value[Len(value)] = first_character THEN Returned(substr_without_last(value))
  ELSE Returned(substr_without_last(value) \o <<value[Len(value)] - 1>>)

OtherThanString == <<joinVars, dictVars, histVars, dpVars, restVars>>

call_next_value ==
  /\ spc = "start"
  /\ string_result' = next_value(string_value)
  /\ spc' = "next_value"
  /\ UNCHANGED <<string_value, OtherThanString>>

call_previous_value ==
  /\ spc = "start"
  /\ string_result' = previous_value(string_value)
  /\ spc' = "previous_value"
  /\ UNCHANGED <<string_value, OtherThanString>>

\* previous_value applied to what next_value returned
call_previous_value_of_next ==
  /\ spc = "next_value"
  /\ ~string_result.failed
  /\ string_result' = previous_value(string_result.value)
  /\ spc' = "previous_value_of_next_value"
  /\ UNCHANGED <<string_value, OtherThanString>>

StringNext ==
  \/ call_next_value
  \/ call_previous_value
  \/ call_previous_value_of_next

InitString ==
  /\ string_value \in Strings
  /\ string_result = Returned(<<>>)
  /\ spc = "start"
  /\ JoinIdle
  /\ DictIdle
  /\ HistIdle
  /\ DpIdle
  /\ RestIdle

SpecString == InitString /\ [][StringNext]_vars

\* ------------------------------------ properties of next_value / previous_value
\* C17: previous_value(next_value(s)) = s for every non-empty string s of
\* supported characters other than the alphabet's minimum string.
C17_PreviousOfNext ==
  (/\ spc = "previous_value_of_next_value"
   /\ string_value # <<>>
   /\ string_value # <<first_character>>) =>
     string_result = Returned(string_value)

\* a string that does not end in the last character of the alphabet comes back
C17_RoundTripReached ==
  /\ spc = "previous_value_of_next_value"
  /\ string_value = <<1, 2, 1>>
  /\ string_result = Returned(<<1, 2, 1>>)

HasUnsupportedCharacter(str) == \E i \in 1..Len(str) : str[i] \notin supported_characters

\* C18: next_value and previous_value fail, returning no value, for every string
\* holding a character outside the supported alphabet, and fail for no string
\* made of supported characters only.
C18_UnsupportedCharactersFail ==
  spc \in {"next_value", "previous_value"} =>
    /\ string_result.failed <=> HasUnsupportedCharacter(string_value)
    /\ string_result.failed => string_result.value = <<>>

\* an unsupported first character followed by supported ones (as in "Abc"), failed
C18_Witness ==
  /\ spc = "next_value"
  /\ Len(string_value) = MaxStringLen
  /\ string_value[1] \notin supported_characters
  /\ \A i \in 2..MaxStringLen : string_value[i] \in supported_characters
  /\ string_result.failed

\* ================================================================ DpCcpTopK
\* The vertices of a join graph are numbered from 0; a vertex set is a set of
\* vertex numbers; an edge is the vertex set its predicate refers to.
\* the number of rows of vertex v
VertexCardinality(v) == IF v = 1 THEN 1000 ELSE IF v = 3 THEN 100 ELSE 10

VerticesOf(graph) == 0..(Len(graph.vertices) - 1)

\* the edges a join graph of n vertices may have: predicates over two or three
\* of its vertices
PossibleEdges(n) == {S \in SUBSET (0..(n - 1)) : Cardinality(S) \in {2, 3}}

JoinGraphs(max_vertices) ==
  UNION {{[vertices |-> [i \in 1..n |-> VertexCardinality(i - 1)], edges |-> E] :
            E \in SUBSET PossibleEdges(n)} : n \in 1..max_vertices}

\* ---- plans
\* A plan tree in prefix notation: a vertex v is <<v>>, a join is <<-1>> followed
\* by its left and its right input.
VertexTree(v) == <<v>>
JoinTree(left, right) == <<-1>> \o left \o right

\* std::numeric_limits<Cost>::infinity()
Infinity == 1000000000

AddCost(a, b) == IF a >= Infinity \/ b >= Infinity THEN Infinity
                 ELSE IF a + b >= Infinity THEN Infinity ELSE a + b

\* JoinPlanVertexNode: the plan of one vertex
build_join_plan_vertex_node(graph, v) ==
  [tree |-> VertexTree(v), vertex_set |-> {v}, predicates |-> {},
   cardinality |-> graph.vertices[v + 1], plan_cost |-> 0]

\* JoinGraph::find_predicates: the predicates of the edges that lie inside the
\* union of the two vertex sets and inside neither of them
find_predicates(graph, vertex_set_a, vertex_set_b) ==
  {e \in graph.edges : /\ e \subseteq (vertex_set_a \cup vertex_set_b)
                       /\ ~(e \subseteq vertex_set_a)
                       /\ ~(e \subseteq vertex_set_b)}

\* a join that lets every row pair through, whatever the predicates
build_join_plan_join_node_without_selectivity(plan_left, plan_right, predicates) ==
  LET cardinality == plan_left.cardinality * plan_right.cardinality
  IN [tree |-> JoinTree(plan_left.tree, plan_right.tree),
      vertex_set |-> plan_left.vertex_set \cup plan_right.vertex_set,
      predicates |-> predicates,
      cardinality |-> cardinality,
      plan_cost |-> AddCost(AddCost(plan_left.plan_cost, plan_right.plan_cost), cardinality)]

\* build_join_plan_join_node: the join of two plans with the given predicates;
\* a predicate lets one row pair in ten through, the cost of a join is the
\* number of rows it yields
build_join_plan_join_node(plan_left, plan_right, predicates) ==
  LET product == plan_left.cardinality * plan_right.cardinality
      cardinality == product \div (10 ^ Cardinality(predicates))
  IN [tree |-> JoinTree(plan_left.tree, plan_right.tree),
      vertex_set |-> plan_left.vertex_set \cup plan_right.vertex_set,
      predicates |-> predicates,
      cardinality |-> cardinality,
      plan_cost |-> AddCost(AddCost(plan_left.plan_cost, plan_right.plan_cost), cardinality)]

\* ---- DpSubplanCacheTopK
get_best_plans(cache, vertex_set) == cache[vertex_set]

\* the position (0-based) at which a plan of this cost goes: after every plan
\* that costs no more
RECURSIVE insert_position(_, _)
insert_position(plans, plan_cost) ==
  IF plans = <<>> \/ plans[1].plan_cost > plan_cost THEN 0
  ELSE 1 + insert_position(Tail(plans), plan_cost)

\* DpSubplanCacheTopK::cache_plan: keeps the plans of a vertex set ordered by
\* cost and drops the most expensive beyond max_entry_count_per_set
cache_plan(cache, vertex_set, plan) ==
  LET plans == cache[vertex_set]
      at == insert_position(plans, plan.plan_cost)
      inserted == SubSeq(plans, 1, at) \o <<plan>> \o SubSeq(plans, at + 1, Len(plans))
  IN [cache EXCEPT ![vertex_set] =
        SubSeq(inserted, 1, IF Len(inserted) > max_entry_count_per_set
                            THEN max_entry_count_per_set ELSE Len(inserted))]

\* ---- EnumerateCcp
RECURSIVE BitValue(_)
\* the value of a vertex set read as a bitset
BitValue(S) == IF S = {} THEN 0
               ELSE LET v == CHOOSE x \in S : TRUE IN 2 ^ v + BitValue(S \ {v})

RECURSIVE OrderSets(_)
\* vertex sets in ascending order of their bitset value
OrderSets(SS) ==
  IF SS = {} THEN <<>>
  ELSE LET m == CHOOSE x \in SS : \A y \in SS : BitValue(x) <= BitValue(y)
       IN <<m>> \o OrderSets(SS \ {m})

RECURSIVE Descending(_)
\* vertices in descending order
Descending(S) ==
  IF S = {} THEN <<>>
  ELSE LET m == CHOOSE x \in S : \A y \in S : y <= x IN <<m>> \o Descending(S \ {m})

\* the vertices outside S that an edge joins to a vertex of S
neighbourhood(ccp_edges, S) ==
  {v \in UNION {{e[1], e[2]} : e \in ccp_edges} :
     /\ v \notin S
     /\ \E e \in ccp_edges : (e[1] = v /\ e[2] \in S) \/ (e[2] = v /\ e[1] \in S)}

\* the vertices numbered no higher than v
exclusion_set(v) == 0..v

RECURSIVE enumerate_csg_recursive(_, _, _)
RECURSIVE enumerate_csg_extensions(_, _, _, _, _)
\* the connected sets that extend S by vertices outside X
enumerate_csg_recursive(ccp_edges, S, X) ==
  LET N == neighbourhood(ccp_edges, S) \ X
      subsets == OrderSets((SUBSET N) \ {{}})
  IN [i \in 1..Len(subsets) |-> S \cup subsets[i]]
       \o enumerate_csg_extensions(ccp_edges, S, X \cup N, subsets, 1)
enumerate_csg_extensions(ccp_edges, S, X, subsets, i) ==
  IF i > Len(subsets) THEN <<>>
  ELSE enumerate_csg_recursive(ccp_edges, S \cup subsets[i], X)
         \o enumerate_csg_extensions(ccp_edges, S, X, subsets, i + 1)

RECURSIVE enumerate_cmp_from(_, _, _, _, _)
\* the complements of S1 that start at the vertices of the sequence starts
enumerate_cmp_from(ccp_edges, S1, X, N, starts) ==
  IF starts = <<>> THEN <<>>
  ELSE LET v == Head(starts)
       IN <<<<S1, {v}>>>>
            \o [i \in 1..Len(enumerate_csg_recursive(ccp_edges, {v},
                                                     X \cup (exclusion_set(v) \cap N))) |->
                  <<S1, enumerate_csg_recursive(ccp_edges, {v},
                                                X \cup (exclusion_set(v) \cap N))[i]>>]
            \o enumerate_cmp_from(ccp_edges, S1, X, N, Tail(starts))

\* the csg-cmp pairs whose first set is S1
enumerate_cmp(ccp_edges, S1) ==
  LET lowest == CHOOSE x \in S1 : \A y \in S1 : x <= y
      X == exclusion_set(lowest) \cup S1
      N == neighbourhood(ccp_edges, S1) \ X
  IN enumerate_cmp_from(ccp_edges, S1, X, N, Descending(N))

RECURSIVE enumerate_cmp_of_all(_, _)
enumerate_cmp_of_all(ccp_edges, csgs) ==
  IF csgs = <<>> THEN <<>>
  ELSE enumerate_cmp(ccp_edges, Head(csgs)) \o enumerate_cmp_of_all(ccp_edges, Tail(csgs))

RECURSIVE enumerate_ccp_from(_, _)
\* the pairs found from vertex v downwards
enumerate_ccp_from(ccp_edges, v) ==
  IF v < 0 THEN <<>>
  ELSE enumerate_cmp(ccp_edges, {v})
         \o enumerate_cmp_of_all(ccp_edges,
                                 enumerate_csg_recursive(ccp_edges, {v}, exclusion_set(v)))
         \o enumerate_ccp_from(ccp_edges, v - 1)

\* EnumerateCcp{num_vertices, edges}()
EnumerateCcp(num_vertices, ccp_edges) == enumerate_ccp_from(ccp_edges, num_vertices - 1)

\* ---- DpCcpTopK
VertexSets(graph) == (SUBSET VerticesOf(graph)) \ {{}}

\* edges of every size taken as an edge between their two lowest vertices
enumerate_ccp_edges_of_any_size(graph) ==
  {<<CHOOSE a \in e : \A x \in e : a <= x,
     CHOOSE b \in e : /\ \E a \in e : a < b
                      /\ Cardinality({x \in e : x < b}) = 1>> :
     e \in {f \in graph.edges : Cardinality(f) >= 2}}

\* the vertex-to-vertex edges: <<find_first, find_next>> of every edge over
\* exactly two vertices
enumerate_ccp_edges(graph) ==
  {<<CHOOSE a \in e : \A x \in e : a <= x, CHOOSE b \in e : \A x \in e : x <= b>> :
     e \in {f \in graph.edges : Cardinality(f) = 2}}

\* the plans that pair the i-th plan of the left with the i-th plan of the right
build_current_plans_pairwise(best_plans_left, best_plans_right, predicates) ==
  [i \in 1..(IF Len(best_plans_left) < Len(best_plans_right)
             THEN Len(best_plans_left) ELSE Len(best_plans_right)) |->
     LET plan == build_join_plan_join_node(best_plans_left[i], best_plans_right[i], predicates)
     IN IF plan.tree \in lqp_blacklist THEN [plan EXCEPT !.plan_cost = Infinity] ELSE plan]

\* the plans the two nested loops build, in the order they build them: one for
\* every plan of the left with every plan of the right; a blacklisted plan gets
\* an infinite cost
build_current_plans(best_plans_left, best_plans_right, predicates) ==
  [i \in 1..(Len(best_plans_left) * Len(best_plans_right)) |->
     LET plan_left == best_plans_left[((i - 1) \div Len(best_plans_right)) + 1]
         plan_right == best_plans_right[((i - 1) % Len(best_plans_right)) + 1]
         plan == build_join_plan_join_node(plan_left, plan_right, predicates)
     IN IF plan.tree \in lqp_blacklist THEN [plan EXCEPT !.plan_cost = Infinity] ELSE plan]

RECURSIVE cache_plans(_, _, _)
\* cache_plan called for each plan in turn
cache_plans(cache, vertex_set, plans) ==
  IF plans = <<>> THEN cache
  ELSE cache_plans(cache_plan(cache, vertex_set, Head(plans)), vertex_set, Tail(plans))

OtherThanDp == <<joinVars, dictVars, histVars, stringVars, restVars>>

\* AbstractDpAlgorithm: every vertex gets its plan cached before _on_execute
seed_subplan_cache ==
  /\ dppc = "seed"
  /\ subplan_cache' = [S \in VertexSets(join_graph) |->
                         IF Cardinality(S) = 1
                         THEN <<build_join_plan_vertex_node(join_graph, CHOOSE v \in S : TRUE)>>
                         ELSE <<>>]
  /\ dppc' = "enumerate"
  /\ UNCHANGED <<join_graph, max_entry_count_per_set, csg_cmp_pairs, pair_index,
                 lqp_blacklist, current_plans, OtherThanDp>>

\* _on_execute up to the loop: the csg-cmp pairs of the vertex-to-vertex edges
enumerate_pairs ==
  /\ dppc = "enumerate"
  /\ csg_cmp_pairs' = EnumerateCcp(Len(join_graph.vertices), enumerate_ccp_edges(join_graph))
  /\ pair_index' = 0
  /\ dppc' = "pairs"
  /\ UNCHANGED <<join_graph, max_entry_count_per_set, subplan_cache, lqp_blacklist,
                 current_plans, OtherThanDp>>

\* one turn of the loop over csg_cmp_pairs
process_pair ==
  /\ dppc = "pairs"
  /\ pair_index < Len(csg_cmp_pairs)
  /\ LET csg_cmp_pair == csg_cmp_pairs[pair_index + 1]
         predicates == find_predicates(join_graph, csg_cmp_pair[1], csg_cmp_pair[2])
         best_plans_left == get_best_plans(subplan_cache, csg_cmp_pair[1])
         best_plans_right == get_best_plans(subplan_cache, csg_cmp_pair[2])
     IN /\ current_plans' = build_current_plans(best_plans_left, best_plans_right, predicates)
        /\ subplan_cache' = cache_plans(subplan_cache, csg_cmp_pair[1] \cup csg_cmp_pair[2],
                                        current_plans')
  /\ pair_index' = pair_index + 1
  /\ UNCHANGED <<join_graph, max_entry_count_per_set, csg_cmp_pairs, lqp_blacklist, dppc,
                 OtherThanDp>>

\* the loop ends
return_from_execute ==
  /\ dppc = "pairs"
  /\ pair_index = Len(csg_cmp_pairs)
  /\ dppc' = "done"
  /\ UNCHANGED <<join_graph, max_entry_count_per_set, csg_cmp_pairs, pair_index,
                 subplan_cache, lqp_blacklist, current_plans, OtherThanDp>>

DpNext ==
  \/ seed_subplan_cache
  \/ enumerate_pairs
  \/ process_pair
  \/ return_from_execute

\* no blacklist, or one that holds the join of vertex 0 with vertex 1
Blacklists == {{}, {JoinTree(VertexTree(0), VertexTree(1))}}

InitDp ==
  /\ join_graph \in JoinGraphs(MaxVertices)
  /\ max_entry_count_per_set \in 1..MaxEntryCount
  /\ lqp_blacklist \in Blacklists
  /\ csg_cmp_pairs = <<>>
  /\ pair_index = 0
  /\ subplan_cache = <<>>
  /\ current_plans = <<>>
  /\ dppc = "seed"
  /\ JoinIdle
  /\ DictIdle
  /\ HistIdle
  /\ StringIdle
  /\ RestIdle

SpecDp == InitDp /\ [][DpNext]_vars

\* ------------------------------------------------------ properties of DpCcpTopK
AllVertices == VerticesOf(join_graph)

\* the edges over exactly two vertices
BinaryEdges == {e \in join_graph.edges : Cardinality(e) = 2}

RECURSIVE Reach(_, _, _)
\* the vertices of S reached from R over edges of E that lie inside S
Reach(E, S, R) ==
  LET further == R \cup {v \in S : \E e \in E : v \in e /\ e \subseteq S /\ e \cap R # {}}
  IN IF further = R THEN R ELSE Reach(E, S, further)

\* S hangs together over the edges of E
Connected(E, S) == S # {} /\ Reach(E, S, {CHOOSE v \in S : TRUE}) = S

PairsEnumerated == dppc \in {"pairs", "done"}

\* every enumerated pair is disjoint, each side connected over the binary edges,
\* and a binary edge links the two sides
PairsAreCsgCmp ==
  \A i \in 1..Len(csg_cmp_pairs) :
    LET S1 == csg_cmp_pairs[i][1]
        S2 == csg_cmp_pairs[i][2]
    IN /\ S1 \cap S2 = {}
       /\ Connected(BinaryEdges, S1)
       /\ Connected(BinaryEdges, S2)
       /\ \E e \in BinaryEdges : e \cap S1 # {} /\ e \cap S2 # {}

\* the pair about to be processed finds a plan cached for each of its sides
NextPairHasPlans ==
  (dppc = "pairs" /\ pair_index < Len(csg_cmp_pairs)) =>
    /\ get_best_plans(subplan_cache, csg_cmp_pairs[pair_index + 1][1]) # <<>>
    /\ get_best_plans(subplan_cache, csg_cmp_pairs[pair_index + 1][2]) # <<>>

\* C19 as stated: over a connected join graph (its edges of every size taken
\* together) every enumerated pair is a csg-cmp pair of the binary edges, finds
\* plans cached for both sides when it is processed, and after the last pair a
\* plan is cached for the full vertex set.
C19_PairsFindPlans ==
  (PairsEnumerated /\ Connected(join_graph.edges, AllVertices)) =>
    /\ PairsAreCsgCmp
    /\ NextPairHasPlans
    /\ dppc = "done" => get_best_plans(subplan_cache, AllVertices) # <<>>

\* C19, amended: the same over a join graph whose binary edges alone connect
\* all vertices.
C19_PairsFindPlansBinaryConnected ==
  (PairsEnumerated /\ Connected(BinaryEdges, AllVertices)) =>
    /\ PairsAreCsgCmp
    /\ NextPairHasPlans
    /\ dppc = "done" => get_best_plans(subplan_cache, AllVertices) # <<>>

\* a chain of four vertices, with an edge over three vertices besides: the last
\* pair has been processed, one of the pairs had a side of two vertices
C19_Witness ==
  /\ dppc = "done"
  /\ Len(join_graph.vertices) = MaxVertices
  /\ Connected(BinaryEdges, AllVertices)
  /\ \E e \in join_graph.edges : Cardinality(e) = 3
  /\ \E i \in 1..Len(csg_cmp_pairs) : Cardinality(csg_cmp_pairs[i][1]) = 2
                                       /\ Cardinality(csg_cmp_pairs[i][2]) = 2
  /\ get_best_plans(subplan_cache, AllVertices) # <<>>

PairProcessed == PairsEnumerated /\ pair_index >= 1

\* the predicates found between two vertex sets
PredicatesBetween(S1, S2) ==
  {e \in join_graph.edges : e \subseteq (S1 \cup S2) /\ e \cap S1 # {} /\ e \cap S2 # {}}

\* C20: for the pair processed last one plan was built for every plan cached
\* for S1 with every plan cached for S2, each with all predicates between S1
\* and S2, and each was offered to the cache under S1 union S2 (it is cached, or
\* the cache holds K plans for the set that cost no more); no vertex set has
\* more than K plans cached, and they are ordered by cost.
C20_CrossProductTopK ==
  /\ PairProcessed =>
       LET S1 == csg_cmp_pairs[pair_index][1]
           S2 == csg_cmp_pairs[pair_index][2]
           left == get_best_plans(subplan_cache, S1)
           right == get_best_plans(subplan_cache, S2)
           cached == get_best_plans(subplan_cache, S1 \cup S2)
       IN /\ Len(current_plans) = Len(left) * Len(right)
          /\ \A l \in 1..Len(left), r \in 1..Len(right) :
               \E i \in 1..Len(current_plans) :
                 /\ current_plans[i].tree = JoinTree(left[l].tree, right[r].tree)
                 /\ current_plans[i].predicates = PredicatesBetween(S1, S2)
                 /\ current_plans[i].vertex_set = S1 \cup S2
          /\ \A i \in 1..Len(current_plans) :
               \/ \E c \in 1..Len(cached) : cached[c] = current_plans[i]
               \/ /\ Len(cached) = max_entry_count_per_set
                  /\ \A c \in 1..Len(cached) :
                       cached[c].plan_cost <= current_plans[i].plan_cost
  /\ PairsEnumerated =>
       \A S \in VertexSets(join_graph) :
         LET cached == get_best_plans(subplan_cache, S)
         IN /\ Len(cached) <= max_entry_count_per_set
            /\ \A c \in 1..(Len(cached) - 1) : cached[c].plan_cost <= cached[c + 1].plan_cost
            /\ \A c \in 1..Len(cached) : cached[c].vertex_set = S

\* a pair with two plans cached for one side: two plans built; and the cache of
\* the union is full
C20_Witness ==
  /\ PairProcessed
  /\ max_entry_count_per_set = 2
  /\ Len(get_best_plans(subplan_cache, csg_cmp_pairs[pair_index][1])) = 2
  /\ Len(current_plans) = 2
  /\ current_plans[1].tree # current_plans[2].tree
  /\ Len(get_best_plans(subplan_cache, csg_cmp_pairs[pair_index][1]
                                         \cup csg_cmp_pairs[pair_index][2])) = 2

\* a plan was offered to a full cache and not kept
C20_WitnessDropped ==
  /\ PairProcessed
  /\ \E i \in 1..Len(current_plans) :
       \A c \in 1..Len(get_best_plans(subplan_cache, current_plans[i].vertex_set)) :
         get_best_plans(subplan_cache, current_plans[i].vertex_set)[c] # current_plans[i]

\* ==================================================================== DpCcp
\* DpCcp keeps one plan per vertex set: a plan replaces the cached one only when
\* it is cheaper, so of two plans of the same cost the one found first stays
dp_ccp_cache_plan(cache, vertex_set, plan) ==
  IF cache[vertex_set] = <<>> \/ plan.plan_cost < cache[vertex_set][1].plan_cost
  THEN [cache EXCEPT ![vertex_set] = <<plan>>]
  ELSE cache

\* the edges EnumerateCsgCmp is given: the binary ones
dp_ccp_edges(graph) ==
  {<<CHOOSE a \in e : \A x \in e : a <= x, CHOOSE b \in e : \A x \in e : x <= b>> :
     e \in {f \in graph.edges : Cardinality(f) = 2}}

\* step 1: the plan of every vertex is cached
dp_ccp_seed ==
  /\ dppc = "seed"
  /\ subplan_cache' = [S \in VertexSets(join_graph) |->
                         IF Cardinality(S) = 1
                         THEN <<build_join_plan_vertex_node(join_graph, CHOOSE v \in S : TRUE)>>
                         ELSE <<>>]
  /\ dppc' = "enumerate"
  /\ UNCHANGED <<join_graph, max_entry_count_per_set, csg_cmp_pairs, pair_index,
                 lqp_blacklist, current_plans, OtherThanDp>>

\* the csg-cmp pairs, in the order of EnumerateCsgCmp
dp_ccp_enumerate ==
  /\ dppc = "enumerate"
  /\ csg_cmp_pairs' = EnumerateCcp(Len(join_graph.vertices), dp_ccp_edges(join_graph))
  /\ pair_index' = 0
  /\ dppc' = "pairs"
  /\ UNCHANGED <<join_graph, max_entry_count_per_set, subplan_cache, lqp_blacklist,
                 current_plans, OtherThanDp>>

\* step 2 for one pair: join the best plans of both sides with the predicates
\* between them and cache the join if it is cheaper
dp_ccp_process_pair ==
  /\ dppc = "pairs"
  /\ pair_index < Len(csg_cmp_pairs)
  /\ LET csg_cmp_pair == csg_cmp_pairs[pair_index + 1]
         predicates == find_predicates(join_graph, csg_cmp_pair[1], csg_cmp_pair[2])
         best_plan_left == subplan_cache[csg_cmp_pair[1]][1]
         best_plan_right == subplan_cache[csg_cmp_pair[2]][1]
         current_plan == build_join_plan_join_node(best_plan_left, best_plan_right, predicates)
     IN /\ current_plans' = <<current_plan>>
        /\ subplan_cache' = dp_ccp_cache_plan(subplan_cache,
                                              csg_cmp_pair[1] \cup csg_cmp_pair[2], current_plan)
  /\ pair_index' = pair_index + 1
  /\ UNCHANGED <<join_graph, max_entry_count_per_set, csg_cmp_pairs, lqp_blacklist, dppc,
                 OtherThanDp>>

\* step 3: the plan cached for the full vertex set is returned
dp_ccp_return ==
  /\ dppc = "pairs"
  /\ pair_index = Len(csg_cmp_pairs)
  /\ dppc' = "done"
  /\ UNCHANGED <<join_graph, max_entry_count_per_set, csg_cmp_pairs, pair_index,
                 subplan_cache, lqp_blacklist, current_plans, OtherThanDp>>

DpCcpNext ==
  \/ dp_ccp_seed
  \/ dp_ccp_enumerate
  \/ dp_ccp_process_pair
  \/ dp_ccp_return

\* the join graphs of binary predicates only
BinaryJoinGraphs(max_vertices) ==
  UNION {{[vertices |-> [i \in 1..n |-> VertexCardinality(i - 1)], edges |-> E] :
            E \in SUBSET {S \in PossibleEdges(n) : Cardinality(S) = 2}} :
         n \in 1..max_vertices}

\* DpCcp has neither a blacklist nor more than one plan per vertex set
InitDpCcp ==
  /\ join_graph \in BinaryJoinGraphs(MaxVertices)
  /\ max_entry_count_per_set = 1
  /\ lqp_blacklist = {}
  /\ csg_cmp_pairs = <<>>
  /\ pair_index = 0
  /\ subplan_cache = <<>>
  /\ current_plans = <<>>
  /\ dppc = "seed"
  /\ JoinIdle
  /\ DictIdle
  /\ HistIdle
  /\ StringIdle
  /\ RestIdle

SpecDpCcp == InitDpCcp /\ [][DpCcpNext]_vars

\* ---------------------------------------------------------- properties of DpCcp
\* R1, R2 and R3 are the vertices 0, 1 and 2
R1 == 0
R2 == 1
R3 == 2

\* the chain R1 - R2 - R3 with 10, 1000 and 10 rows
ChainGraph == [vertices |-> <<10, 1000, 10>>, edges |-> {{R1, R2}, {R2, R3}}]

\* the plan DpCcp returns
dp_ccp_result == subplan_cache[VerticesOf(join_graph)][1]

\* the join of two plans over the chain
ChainJoin(plan_left, plan_right) ==
  build_join_plan_join_node(plan_left, plan_right,
                            find_predicates(ChainGraph, plan_left.vertex_set,
                                            plan_right.vertex_set))

ChainVertex(v) == build_join_plan_vertex_node(ChainGraph, v)

\* ((R1 join R2) join R3) and (R1 join (R2 join R3))
LeftDeepPlan == ChainJoin(ChainJoin(ChainVertex(R1), ChainVertex(R2)), ChainVertex(R3))
RightDeepPlan == ChainJoin(ChainVertex(R1), ChainJoin(ChainVertex(R2), ChainVertex(R3)))

\* the trees that join the same inputs as the tree of the plan, in either order
RECURSIVE Commuted(_)
Commuted(plan_tree) ==
  IF Len(plan_tree) = 1 THEN {plan_tree}
  ELSE LET k == CHOOSE k \in 2..(Len(plan_tree) - 1) :
                  \* the left input ends where as many vertices as joins + 1 were read
                  /\ Cardinality({i \in 2..k : plan_tree[i] # -1}) =
                       Cardinality({i \in 2..k : plan_tree[i] = -1}) + 1
                  /\ \A j \in 2..(k - 1) :
                       Cardinality({i \in 2..j : plan_tree[i] # -1}) <=
                         Cardinality({i \in 2..j : plan_tree[i] = -1})
           left == SubSeq(plan_tree, 2, k)
           right == SubSeq(plan_tree, k + 1, Len(plan_tree))
       IN UNION {{JoinTree(l, r), JoinTree(r, l)} : l \in Commuted(left), r \in Commuted(right)}

\* a plan joins R1 with R3 directly
JoinsR1WithR3(plan_tree) ==
  \E i \in 1..(Len(plan_tree) - 2) :
    SubSeq(plan_tree, i, i + 2) \in {<<-1, R1, R3>>, <<-1, R3, R1>>}

ChainDone == dppc = "done" /\ join_graph = ChainGraph

\* C21 as stated: on the chain the plan returned is ((R1 join R2) join R3), it
\* costs 1100, (R1 join (R2 join R3)) costs 2000, and no cached plan joins R1 with
\* R3 directly.
C21_ChainBestPlan ==
  ChainDone =>
    /\ dp_ccp_result.tree \in Commuted(LeftDeepPlan.tree)
    /\ dp_ccp_result.plan_cost = 1100
    /\ RightDeepPlan.plan_cost = 2000
    /\ dp_ccp_result.plan_cost < RightDeepPlan.plan_cost
    /\ \A S \in VertexSets(join_graph) : \A i \in 1..Len(subplan_cache[S]) :
         ~JoinsR1WithR3(subplan_cache[S][i].tree)

\* C21, amended: on the chain ((R1 join R2) join R3) and (R1 join (R2 join R3))
\* both cost 2000, the plan returned is one of the two and costs 2000, no other
\* plan of the full vertex set was built that costs less, and no cached plan
\* joins R1 with R3 directly.
C21_ChainPlansCostTheSame ==
  ChainDone =>
    /\ LeftDeepPlan.plan_cost = 1000 + 1000
    /\ RightDeepPlan.plan_cost = 1000 + 1000
    /\ dp_ccp_result.tree \in Commuted(LeftDeepPlan.tree) \cup Commuted(RightDeepPlan.tree)
    /\ dp_ccp_result.plan_cost = 2000
    /\ subplan_cache[{R1, R3}] = <<>>
    /\ \A S \in VertexSets(join_graph) : \A i \in 1..Len(subplan_cache[S]) :
         ~JoinsR1WithR3(subplan_cache[S][i].tree)

\* the chain was planned: both orders were built on the way, one of them last
C21_Witness ==
  /\ ChainDone
  /\ pair_index = 4
  /\ current_plans[1].vertex_set = {R1, R2, R3}
  /\ dp_ccp_result.cardinality = 1000

\* ================================================= CardinalityEstimatorCached
\* std::nullopt of std::optional<Cardinality>
NoCardinality == 0

Cardinalities == 1..MaxCardinality

CacheModes == {"ReadAndUpdate", "ReadOnly"}

\* sequences without repetition over the elements of S
Arrangements(S) ==
  {v \in UNION {[1..n -> S] : n \in 0..Cardinality(S)} :
     \A i, j \in 1..Len(v) : i # j => v[i] # v[j]}

\* the arguments of estimate: at least one relation, any predicates
RelationVectors == Arrangements(1..MaxRelations) \ {<<>>}
PredicateVectors == Arrangements(1..MaxPredicates)

\* the fingerprint of an estimate call: what it refers to, in whatever order
Fingerprint(relations, predicates) ==
  [relations |-> Range(relations), predicates |-> Range(predicates)]

Fingerprints == {Fingerprint(r, p) : r \in RelationVectors, p \in PredicateVectors}

NoFingerprint == [relations |-> {}, predicates |-> {}]

Callers == 1..MaxCallers

\* the calls begun so far
EstimateCallsBegun ==
  Len(returned_estimates) + Cardinality({t \in Callers : callers[t].pc # "idle"})

OtherThanEst == <<joinVars, dictVars, histVars, stringVars, dpVars, chunkVars, tableVars,
                  jitVars, pluginVars, consoleVars, generatorVars>>

\* a lookup that finds nothing although the cache holds the fingerprint
cache_get_always_misses(cache, fingerprint) == NoCardinality

\* BaseCardinalityCache::get
cache_get(cache, fingerprint) == cache[fingerprint]

\* BaseCardinalityCache::set
cache_set(cache, fingerprint, cardinality) == [cache EXCEPT ![fingerprint] = cardinality]

\* a call that returned
ReturnedEstimate(fingerprint, result, hit) ==
  [fingerprint |-> fingerprint, estimate |-> result, hit |-> hit]

\* estimate, up to the lookup in the cache: a hit returns the cached cardinality
estimate_lookup(t) ==
  \E relations \in RelationVectors, predicates \in PredicateVectors :
    LET fingerprint == Fingerprint(relations, predicates)
        cached == cache_get(cardinality_cache, fingerprint)
    IN /\ callers[t].pc = "idle"
       /\ EstimateCallsBegun < MaxEstimateCalls
       /\ overlapped' = IF \E u \in Callers : /\ callers[u].pc # "idle"
                                              /\ callers[u].fingerprint = fingerprint
                        THEN overlapped \cup {fingerprint} ELSE overlapped
       /\ IF cached # NoCardinality
          THEN /\ returned_estimates' =
                    Append(returned_estimates, ReturnedEstimate(fingerprint, cached, TRUE))
               /\ UNCHANGED callers
          ELSE /\ callers' = [callers EXCEPT ![t] = [pc |-> "fallback",
                                                     fingerprint |-> fingerprint,
                                                     estimate |-> NoCardinality]]
               /\ UNCHANGED returned_estimates
       /\ UNCHANGED <<cache_mode, cardinality_cache, fallback_invocations, OtherThanEst>>

\* estimate, on a miss: the fallback estimator is asked; it has an estimate or none
estimate_fallback(t) ==
  \E fallback \in Cardinalities \cup {NoCardinality} :
    /\ callers[t].pc = "fallback"
    /\ fallback_invocations' =
         [fallback_invocations EXCEPT ![callers[t].fingerprint] = @ + 1]
    /\ callers' = [callers EXCEPT ![t].pc = "update", ![t].estimate = fallback]
    /\ UNCHANGED <<cache_mode, cardinality_cache, returned_estimates, overlapped, OtherThanEst>>

\* estimate, after the fallback: in ReadAndUpdate mode the estimate is written
\* to the cache; the estimate is returned
estimate_update(t) ==
  /\ callers[t].pc = "update"
  /\ cardinality_cache' =
       IF cache_mode = "ReadAndUpdate" /\ callers[t].estimate # NoCardinality
       THEN cache_set(cardinality_cache, callers[t].fingerprint, callers[t].estimate)
       ELSE cardinality_cache
  /\ returned_estimates' =
       Append(returned_estimates,
              ReturnedEstimate(callers[t].fingerprint, callers[t].estimate, FALSE))
  /\ callers' = [callers EXCEPT ![t] = [pc |-> "idle", fingerprint |-> NoFingerprint,
                                        estimate |-> NoCardinality]]
  /\ UNCHANGED <<cache_mode, fallback_invocations, overlapped, OtherThanEst>>

EstNext ==
  \E t \in Callers :
    \/ estimate_lookup(t)
    \/ estimate_fallback(t)
    \/ estimate_update(t)

\* the cache the estimator is constructed with is empty or holds one cardinality
InitEst ==
  /\ cache_mode \in CacheModes
  /\ cardinality_cache \in
       {[f \in Fingerprints |-> NoCardinality]} \cup
       {[f \in Fingerprints |-> IF f = g THEN c ELSE NoCardinality] :
          g \in Fingerprints, c \in Cardinalities}
  /\ callers = [t \in Callers |-> [pc |-> "idle", fingerprint |-> NoFingerprint,
                                   estimate |-> NoCardinality]]
  /\ returned_estimates = <<>>
  /\ fallback_invocations = [f \in Fingerprints |-> 0]
  /\ overlapped = {}
  /\ JoinIdle
  /\ DictIdle
  /\ HistIdle
  /\ StringAndDpIdle
  /\ RestIdleBut("est")

SpecEst == InitEst /\ [][EstNext]_vars

\* ------------------------------------- properties of CardinalityEstimatorCached
\* the calls for a fingerprint that returned, in the order they returned
ReturnedFor(fingerprint) ==
  {i \in 1..Len(returned_estimates) : returned_estimates[i].fingerprint = fingerprint}

FirstReturnedFor(fingerprint) ==
  CHOOSE i \in ReturnedFor(fingerprint) : \A j \in ReturnedFor(fingerprint) : i <= j

C22_WitnessOverlap ==
  /\ cache_mode = "ReadAndUpdate"
  /\ \E f \in overlapped : fallback_invocations[f] = 2

\* ======================================== Chunk: replace_column / get_segment
\* A segment lives in segment_heap under its address (1, 2, ...); a
\* std::shared_ptr<BaseSegment> is such an address, 0 is the null pointer. A
\* segment is freed when its last std::shared_ptr goes away.
NullSegment == 0

CxlumnIDs == 0..(MaxColumns - 1)

Readers == 1..MaxReaders

\* the values a segment of the chunk may hold
SegmentContents == [1..MaxChunkRows -> 1..MaxVal]

\* a segment on the heap
HeapSegment(values) == [values |-> values, freed |-> FALSE]

\* a reader that holds no segment
NotReading == [pc |-> "idle", cxlumn_id |-> 0, segment |-> NullSegment,
               replacements_before |-> 0, values |-> <<>>]

\* the std::shared_ptr that point to a segment: those of the chunk
\* (of readers none: a reader would hold a plain pointer)
shared_ptrs_of_chunk_only(columns, the_readers, segment) ==
  {<<"column", c>> : c \in {c \in CxlumnIDs : columns[c + 1] = segment}}

\* the std::shared_ptr that point to a segment: those of the chunk and those
\* get_segment returned to readers that still hold them
shared_ptrs(columns, the_readers, segment) ==
  {<<"column", c>> : c \in {c \in CxlumnIDs : columns[c + 1] = segment}} \cup
  {<<"reader", r>> : r \in {r \in Readers : the_readers[r].segment = segment}}

\* the heap after the shared pointers changed: a segment nothing points to is freed
release_segments(heap, columns, the_readers) ==
  [a \in DOMAIN heap |->
     IF shared_ptrs(columns, the_readers, a) = {} THEN [heap[a] EXCEPT !.freed = TRUE]
     ELSE heap[a]]

\* Chunk::replace_column: one atomic store of the pointer of the column
replace_column(columns, cxlumn_id, column) == [columns EXCEPT ![cxlumn_id + 1] = column]

\* Chunk::get_segment: one atomic load of the pointer of the column
chunk_get_segment(columns, cxlumn_id) == columns[cxlumn_id + 1]

OtherThanChunk == <<joinVars, dictVars, histVars, stringVars, dpVars, estVars, tableVars,
                    jitVars, pluginVars, consoleVars, generatorVars>>

\* a thread builds a segment and replaces a column of the chunk with it
call_replace_column ==
  \E cxlumn_id \in CxlumnIDs, values \in SegmentContents :
    LET column == Len(segment_heap) + 1
        heap == Append(segment_heap, HeapSegment(values))
        old == chunk_get_segment(chunk_columns, cxlumn_id)
    IN /\ Len(replace_log) < MaxReplacements
       /\ chunk_columns' = replace_column(chunk_columns, cxlumn_id, column)
       /\ segment_heap' = release_segments(heap, chunk_columns', readers)
       /\ replace_log' = Append(replace_log,
                                [cxlumn_id |-> cxlumn_id, old |-> old, column |-> column])
       /\ UNCHANGED <<readers, OtherThanChunk>>

\* a reader calls get_segment
call_get_segment(r) ==
  \E cxlumn_id \in CxlumnIDs :
    /\ readers[r].pc = "idle"
    /\ readers' = [readers EXCEPT ![r] =
                     [pc |-> "reading", cxlumn_id |-> cxlumn_id,
                      segment |-> chunk_get_segment(chunk_columns, cxlumn_id),
                      replacements_before |-> Len(replace_log), values |-> <<>>]]
    /\ UNCHANGED <<chunk_columns, segment_heap, replace_log, OtherThanChunk>>

\* a reader reads the next value of the segment it holds; what it finds in
\* memory that was freed is anything
read_value(r) ==
  /\ readers[r].pc = "reading"
  /\ Len(readers[r].values) < MaxChunkRows
  /\ \E value \in 0..MaxVal :
       /\ \/ segment_heap[readers[r].segment].freed
          \/ value = segment_heap[readers[r].segment].values[Len(readers[r].values) + 1]
       /\ readers' = [readers EXCEPT ![r].values = Append(@, value)]
  /\ UNCHANGED <<chunk_columns, segment_heap, replace_log, OtherThanChunk>>

\* a reader has read the segment and lets go of it
release_segment(r) ==
  /\ readers[r].pc = "reading"
  /\ Len(readers[r].values) = MaxChunkRows
  /\ readers' = [readers EXCEPT ![r] = NotReading]
  /\ segment_heap' = release_segments(segment_heap, chunk_columns, readers')
  /\ UNCHANGED <<chunk_columns, replace_log, OtherThanChunk>>

ChunkNext ==
  \/ call_replace_column
  \/ \E r \in Readers :
       \/ call_get_segment(r)
       \/ read_value(r)
       \/ release_segment(r)

\* the chunk as constructed: column c points to segment c + 1
InitChunk ==
  /\ segment_heap \in [1..MaxColumns -> {HeapSegment(values) : values \in SegmentContents}]
  /\ chunk_columns = [c \in 1..MaxColumns |-> c]
  /\ readers = [r \in Readers |-> NotReading]
  /\ replace_log = <<>>
  /\ JoinIdle
  /\ DictIdle
  /\ HistIdle
  /\ StringAndDpIdle
  /\ RestIdleBut("chunk")

SpecChunk == InitChunk /\ [][ChunkNext]_vars

\* ---------------------------------------------------------- properties of Chunk
\* the replace_column calls of a column among the first n calls
ReplacementsOf(cxlumn_id, n) == {i \in 1..n : replace_log[i].cxlumn_id = cxlumn_id}

\* the segment of a column after the first n replace_column calls
SegmentAfter(cxlumn_id, n) ==
  IF ReplacementsOf(cxlumn_id, n) = {} THEN cxlumn_id + 1
  ELSE replace_log[CHOOSE i \in ReplacementsOf(cxlumn_id, n) :
                     \A j \in ReplacementsOf(cxlumn_id, n) : j <= i].column

\* C23: a reader holds the segment that was the column's when it called
\* get_segment (the old one before a replacement, the new one after it
\* returned), never no segment and never a freed one; what it read of it is what
\* the segment held when it was built, also after the column was replaced; and
\* a column no replace_column call named still has its first segment.
C23_ReplaceColumnAtomic ==
  /\ \A r \in Readers :
       readers[r].pc = "reading" =>
         /\ readers[r].segment # NullSegment
         /\ readers[r].segment = SegmentAfter(readers[r].cxlumn_id, readers[r].replacements_before)
         /\ ~segment_heap[readers[r].segment].freed
         /\ \A o \in 1..Len(readers[r].values) :
              readers[r].values[o] = segment_heap[readers[r].segment].values[o]
  /\ \A c \in CxlumnIDs :
       /\ chunk_get_segment(chunk_columns, c) = SegmentAfter(c, Len(replace_log))
       /\ ~segment_heap[chunk_get_segment(chunk_columns, c)].freed

\* a reader got a segment, the column was replaced by a segment of other
\* values, and the reader read the old values to the end; another reader got
\* the new segment
C23_Witness ==
  \E r, q \in Readers :
    /\ readers[r].pc = "reading"
    /\ readers[r].replacements_before = 0
    /\ \E i \in 1..Len(replace_log) :
         /\ replace_log[i].cxlumn_id = readers[r].cxlumn_id
         /\ replace_log[i].old = readers[r].segment
         /\ segment_heap[replace_log[i].column].values # segment_heap[readers[r].segment].values
         /\ readers[q].pc = "reading"
         /\ readers[q].segment = replace_log[i].column
    /\ Len(readers[r].values) = MaxChunkRows

\* a replaced segment was freed after its last reader let go of it
C23_WitnessFreed == \E a \in DOMAIN segment_heap : segment_heap[a].freed

\* ============================================ Table: append_chunk / append
\* A table of one column: its chunk capacity and its chunks; a chunk is the
\* values of its segment and whether rows can still be appended to it.
\* a chunk that is constructed immutable
new_chunk_immutable(segment) == [segment |-> segment, is_mutable |-> FALSE]

\* Chunk::Chunk: _is_mutable = true
new_chunk(segment) == [segment |-> segment, is_mutable |-> TRUE]

\* Chunk::is_mutable
is_mutable(chunk) == chunk.is_mutable

\* Chunk::mark_immutable
mark_immutable(chunk) == [chunk EXCEPT !.is_mutable = FALSE]

\* Chunk::size
size(chunk) == Len(chunk.segment)

\* Chunk::append: adds a row to the chunk
chunk_append(chunk, value) == [chunk EXCEPT !.segment = Append(@, value)]

\* Table::Table(cxlumn_definitions, TableType::Data, max_chunk_size)
new_table(max_chunk_size) == [max_chunk_size |-> max_chunk_size, chunks |-> <<>>]

\* Table::append_chunk: seals the chunk that was the last one and adds a chunk
\* of the given segments
append_chunk(table, segment) ==
  LET sealed == [i \in 1..Len(table.chunks) |->
                   IF i = Len(table.chunks) THEN mark_immutable(table.chunks[i])
                   ELSE table.chunks[i]]
  IN [table EXCEPT !.chunks = Append(sealed, new_chunk(segment))]

\* Table::append: a new chunk is allocated when there is none or the last one
\* is full; the row goes to the last chunk
append(table, value) ==
  LET allocated == IF table.chunks = <<>> \/
                      size(table.chunks[Len(table.chunks)]) >= table.max_chunk_size
                   THEN append_chunk(table, <<>>)
                   ELSE table
  IN [allocated EXCEPT !.chunks[Len(allocated.chunks)] = chunk_append(@, value)]

OtherThanTable == <<joinVars, dictVars, histVars, stringVars, dpVars, estVars, chunkVars,
                    jitVars, pluginVars, consoleVars, generatorVars>>

\* append_chunk is called with segments of up to max_chunk_size rows
call_append_chunk ==
  \E segment \in UNION {[1..n -> 1..MaxVal] : n \in 0..stored_table.max_chunk_size} :
    /\ Len(stored_table.chunks) < MaxTableChunks
    /\ stored_table' = append_chunk(stored_table, segment)
    /\ table_op' = [name |-> "append_chunk", before |-> stored_table.chunks]
    /\ UNCHANGED OtherThanTable

\* append is called with a row
call_append ==
  \E value \in 1..MaxVal :
    /\ Len(append(stored_table, value).chunks) <= MaxTableChunks
    /\ stored_table' = append(stored_table, value)
    /\ table_op' = [name |-> "append", before |-> stored_table.chunks]
    /\ UNCHANGED OtherThanTable

TableNext ==
  \/ call_append_chunk
  \/ call_append

InitTable ==
  /\ stored_table \in {new_table(max_chunk_size) : max_chunk_size \in 1..MaxChunkSize}
  /\ table_op = [name |-> "constructed", before |-> <<>>]
  /\ JoinIdle
  /\ DictIdle
  /\ HistIdle
  /\ StringAndDpIdle
  /\ RestIdleBut("table")

SpecTable == InitTable /\ [][TableNext]_vars

\* ---------------------------------------------------------- properties of Table
\* the chunk rows are appended to: the last one
LastChunk(chunks) == chunks[Len(chunks)]

\* C24: every chunk but the last is immutable; a chunk that was immutable
\* before the last operation still is; append(row) left every chunk but the last
\* as it was, apart from sealing, and added its row to the last chunk, which is
\* mutable: to the chunk that was the last one if it had room, to a new chunk if
\* it was full or there was none.
C24_OnlyLastChunkMutable ==
  LET chunks == stored_table.chunks
      before == table_op.before
  IN /\ \A i \in 1..(Len(chunks) - 1) : ~is_mutable(chunks[i])
     /\ \A i \in 1..Len(before) : ~is_mutable(before[i]) => ~is_mutable(chunks[i])
     /\ \A i \in 1..Len(before) : i < Len(chunks) => chunks[i].segment = before[i].segment
     /\ table_op.name = "append" =>
          /\ is_mutable(LastChunk(chunks))
          /\ size(LastChunk(chunks)) <= stored_table.max_chunk_size
          /\ IF before = <<>> \/ size(LastChunk(before)) >= stored_table.max_chunk_size
             THEN /\ Len(chunks) = Len(before) + 1
                  /\ size(LastChunk(chunks)) = 1
             ELSE /\ Len(chunks) = Len(before)
                  /\ is_mutable(LastChunk(before))
                  /\ size(LastChunk(chunks)) = size(LastChunk(before)) + 1
                  /\ SubSeq(LastChunk(chunks).segment, 1, size(LastChunk(before))) =
                       LastChunk(before).segment

\* a row was appended to a full last chunk: a third chunk was allocated for it
\* and the two before it are sealed
C24_Witness ==
  /\ table_op.name = "append"
  /\ Len(table_op.before) = 2
  /\ Len(stored_table.chunks) = 3
  /\ is_mutable(LastChunk(table_op.before))
  /\ ~is_mutable(stored_table.chunks[2])
  /\ size(stored_table.chunks[2]) = stored_table.max_chunk_size

\* a row was appended to a chunk of append_chunk that had room
C24_WitnessRoom ==
  /\ table_op.name = "append"
  /\ Len(table_op.before) = Len(stored_table.chunks)
  /\ size(LastChunk(stored_table.chunks)) = 2
  /\ Len(stored_table.chunks) = 2

\* ================================================= jit_and / jit_or
\* A JitMaterializedValue of type Bool: the is_null flag and the byte read by
\* as<uint8_t>(); && and || take every non-zero byte as true and yield 0 or 1.
JitValues == 0..MaxJitValue

JitMaterializedValue == [is_null : BOOLEAN, value : JitValues]

\* the byte of a C++ bool
AsByte(b) == IF b THEN 1 ELSE 0

\* the conjunction takes the NULL flag of the left operand only
jit_and_null_of_lhs(lhs, rhs) ==
  [value |-> AsByte(lhs.value # 0 /\ rhs.value # 0), is_null |-> lhs.is_null]

\* jit_and
jit_and(lhs, rhs) ==
  IF lhs.is_null
  THEN [value |-> AsByte(FALSE), is_null |-> rhs.is_null \/ rhs.value # 0]
  ELSE [value |-> AsByte(lhs.value # 0 /\ rhs.value # 0),
        is_null |-> lhs.value # 0 /\ rhs.is_null]

\* jit_or
jit_or(lhs, rhs) ==
  IF lhs.is_null
  THEN [value |-> AsByte(TRUE), is_null |-> rhs.is_null \/ ~(rhs.value # 0)]
  ELSE [value |-> AsByte(lhs.value # 0 \/ rhs.value # 0),
        is_null |-> ~(lhs.value # 0) /\ rhs.is_null]

OtherThanJit == <<joinVars, dictVars, histVars, stringVars, dpVars, estVars, chunkVars,
                  tableVars, pluginVars, consoleVars, generatorVars>>

call_jit_and ==
  /\ jit_pc = "operands"
  /\ jit_result' = jit_and(jit_lhs, jit_rhs)
  /\ jit_pc' = "and"
  /\ UNCHANGED <<jit_lhs, jit_rhs, OtherThanJit>>

call_jit_or ==
  /\ jit_pc = "operands"
  /\ jit_result' = jit_or(jit_lhs, jit_rhs)
  /\ jit_pc' = "or"
  /\ UNCHANGED <<jit_lhs, jit_rhs, OtherThanJit>>

JitNext ==
  \/ call_jit_and
  \/ call_jit_or

InitJit ==
  /\ jit_lhs \in JitMaterializedValue
  /\ jit_rhs \in JitMaterializedValue
  /\ jit_result = [is_null |-> FALSE, value |-> 0]
  /\ jit_pc = "operands"
  /\ JoinIdle
  /\ DictIdle
  /\ HistIdle
  /\ StringAndDpIdle
  /\ RestIdleBut("jit")

SpecJit == InitJit /\ [][JitNext]_vars

\* ------------------------------------------------- properties of jit_and / jit_or
\* the SQL truth value a JitMaterializedValue stands for
TruthValue(v) == IF v.is_null THEN "NULL" ELSE IF v.value # 0 THEN "TRUE" ELSE "FALSE"

\* SQL three-valued conjunction and disjunction
SqlAnd(a, b) ==
  IF a = "FALSE" \/ b = "FALSE" THEN "FALSE"
  ELSE IF a = "NULL" \/ b = "NULL" THEN "NULL" ELSE "TRUE"

SqlOr(a, b) ==
  IF a = "TRUE" \/ b = "TRUE" THEN "TRUE"
  ELSE IF a = "NULL" \/ b = "NULL" THEN "NULL" ELSE "FALSE"

\* the values that differ from v at most in the byte stored under a NULL flag
SameButNullByte(v) == IF v.is_null THEN {[v EXCEPT !.value = b] : b \in JitValues} ELSE {v}

\* C25: jit_and and jit_or yield the SQL three-valued conjunction and
\* disjunction of their operands, the same with the operands exchanged, and the
\* same whatever byte is stored in an operand flagged NULL.
C25_ThreeValuedLogic ==
  /\ jit_pc = "and" =>
       /\ TruthValue(jit_result) = SqlAnd(TruthValue(jit_lhs), TruthValue(jit_rhs))
       /\ TruthValue(jit_and(jit_rhs, jit_lhs)) = TruthValue(jit_result)
       /\ \A l \in SameButNullByte(jit_lhs), r \in SameButNullByte(jit_rhs) :
            TruthValue(jit_and(l, r)) = TruthValue(jit_result)
  /\ jit_pc = "or" =>
       /\ TruthValue(jit_result) = SqlOr(TruthValue(jit_lhs), TruthValue(jit_rhs))
       /\ TruthValue(jit_or(jit_rhs, jit_lhs)) = TruthValue(jit_result)
       /\ \A l \in SameButNullByte(jit_lhs), r \in SameButNullByte(jit_rhs) :
            TruthValue(jit_or(l, r)) = TruthValue(jit_result)

\* TRUE AND NULL, the NULL operand holding a non-zero byte: the result is NULL
C25_Witness ==
  /\ jit_pc = "and"
  /\ ~jit_lhs.is_null /\ jit_lhs.value = MaxJitValue
  /\ jit_rhs.is_null /\ jit_rhs.value # 0
  /\ jit_result.is_null

\* NULL OR TRUE: the result is TRUE
C25_WitnessOr ==
  /\ jit_pc = "or"
  /\ jit_lhs.is_null /\ jit_lhs.value # 0
  /\ ~jit_rhs.is_null /\ jit_rhs.value # 0
  /\ TruthValue(jit_result) = "TRUE"

\* ======================================================== PluginManager
\* _plugins is the set of its entries (name, plugin); a library that cannot be
\* opened or has no factory yields no plugin.
NoPlugin == 0

PluginNames == 1..MaxPluginNames

Plugins == 1..MaxPluginInstances

\* the iterator past the last entry
EndIterator == 0

\* no plugin is ever taken for a duplicate
_is_duplicate_never(registry, plugin) == FALSE

\* PluginManager::_is_duplicate
_is_duplicate(registry, plugin) == \E p \in registry : p.plugin = plugin

\* _plugins.count(name)
plugins_count(registry, name) == Cardinality({p \in registry : p.name = name})

\* _plugins.at(name)
plugins_at(registry, name) == CHOOSE p \in registry : p.name = name

\* _plugins[name] = plugin_handle_wrapper
plugins_assign(registry, name, plugin) ==
  {p \in registry : p.name # name} \cup {[name |-> name, plugin |-> plugin]}

\* _plugins.erase(name)
plugins_erase(registry, name) == {p \in registry : p.name # name}

\* PluginManager::load_plugin: the registry afterwards, the plugin start() was
\* called on, and whether an Assert failed
load_plugin(registry, name, plugin) ==
  IF plugins_count(registry, name) # 0 \/ plugin = NoPlugin \/ _is_duplicate(registry, plugin)
  THEN [plugins |-> registry, started |-> NoPlugin, failed |-> TRUE]
  ELSE [plugins |-> plugins_assign(registry, name, plugin), started |-> plugin,
        failed |-> FALSE]

\* PluginManager::stop_plugin: the registry afterwards, the plugin stop() was
\* called on, and whether at(name) threw
stop_plugin(registry, name) ==
  IF plugins_count(registry, name) = 0
  THEN [plugins |-> registry, stopped |-> NoPlugin, failed |-> TRUE]
  ELSE [plugins |-> plugins_erase(registry, name),
        stopped |-> plugins_at(registry, name).plugin, failed |-> FALSE]

\* one more call on the plugin
Called(calls, plugin) ==
  [q \in Plugins |-> IF q = plugin THEN calls[q] + 1 ELSE calls[q]]

OtherThanPlugin == <<joinVars, dictVars, histVars, stringVars, dpVars, estVars, chunkVars,
                     tableVars, jitVars, consoleVars, generatorVars>>

call_load_plugin ==
  \E name \in PluginNames, plugin \in Plugins \cup {NoPlugin} :
    LET loaded == load_plugin(plugins, name, plugin)
    IN /\ clean_up.pc = "idle"
       /\ plugin # NoPlugin => start_calls[plugin] < MaxPluginStarts
       /\ plugins' = loaded.plugins
       /\ start_calls' = Called(start_calls, loaded.started)
       /\ plugin_call' = [name |-> "load_plugin", plugin_name |-> name, plugin |-> plugin,
                          failed |-> loaded.failed, plugins |-> plugins,
                          start_calls |-> start_calls, stop_calls |-> stop_calls]
       /\ UNCHANGED <<stop_calls, clean_up, OtherThanPlugin>>

call_stop_plugin ==
  \E name \in PluginNames :
    LET stopped == stop_plugin(plugins, name)
    IN /\ clean_up.pc = "idle"
       /\ plugins' = stopped.plugins
       /\ stop_calls' = Called(stop_calls, stopped.stopped)
       /\ plugin_call' = [name |-> "stop_plugin", plugin_name |-> name, plugin |-> NoPlugin,
                          failed |-> stopped.failed, plugins |-> plugins,
                          start_calls |-> start_calls, stop_calls |-> stop_calls]
       /\ UNCHANGED <<start_calls, clean_up, OtherThanPlugin>>

\* PluginManager::_clean_up: _plugins.begin(); the order of the entries is that
\* of the container
clean_up_begin ==
  /\ clean_up.pc = "idle"
  /\ \E it \in {p.name : p \in plugins} \cup {EndIterator} :
       /\ it = EndIterator <=> plugins = {}
       /\ clean_up' = [pc |-> IF it = EndIterator THEN "done" ELSE "loop", it |-> it,
                       plugins |-> plugins, stop_calls |-> stop_calls]
  /\ UNCHANGED <<plugins, start_calls, stop_calls, plugin_call, OtherThanPlugin>>

\* the body of the loop and its increment: stop_plugin erases the entry the
\* iterator is at, which invalidates the iterator; incrementing it is undefined:
\* it may arrive at any entry, at an entry that was erased, at the end, or the
\* access fails. stop_plugin of a name that is not registered throws out of the
\* destructor.
clean_up_stop_plugin ==
  LET stopped == stop_plugin(plugins, clean_up.it)
  IN /\ clean_up.pc = "loop"
     /\ plugins' = stopped.plugins
     /\ stop_calls' = Called(stop_calls, stopped.stopped)
     /\ IF stopped.failed
        THEN clean_up' = [clean_up EXCEPT !.pc = "terminated"]
        ELSE \/ \E it \in PluginNames \cup {EndIterator} :
                  clean_up' = [clean_up EXCEPT !.it = it,
                                 !.pc = IF it = EndIterator THEN "done" ELSE "loop"]
             \/ clean_up' = [clean_up EXCEPT !.pc = "crashed"]
     /\ UNCHANGED <<start_calls, plugin_call, OtherThanPlugin>>

PluginNext ==
  \/ call_load_plugin
  \/ call_stop_plugin
  \/ clean_up_begin
  \/ clean_up_stop_plugin

InitPlugin ==
  /\ plugins = {}
  /\ start_calls = [q \in Plugins |-> 0]
  /\ stop_calls = [q \in Plugins |-> 0]
  /\ plugin_call = [name |-> "constructed"]
  /\ clean_up = [pc |-> "idle"]
  /\ JoinIdle
  /\ DictIdle
  /\ HistIdle
  /\ StringAndDpIdle
  /\ RestIdleBut("plugin")

SpecPlugin == InitPlugin /\ [][PluginNext]_vars

\* ------------------------------------------------- properties of PluginManager
\* C26: a name is registered at most once and no two names refer to the same
\* plugin. A load_plugin with a registered name or a registered plugin failed,
\* left the registry as it was and called no start(); one that succeeded added
\* exactly its entry and called start() once on its plugin and on no other. A
\* stop_plugin of a registered name called stop() once on its plugin and removed
\* exactly that entry; one of an unknown name failed and left the registry as it
\* was.
C26_RegistryInvariants ==
  /\ \A p, q \in plugins : (p.name = q.name \/ p.plugin = q.plugin) => p = q
  /\ (clean_up.pc = "idle" /\ plugin_call.name = "load_plugin") =>
       LET c == plugin_call
       IN /\ stop_calls = c.stop_calls
          /\ (plugins_count(c.plugins, c.plugin_name) # 0 \/ _is_duplicate(c.plugins, c.plugin))
               => c.failed
          /\ c.failed => plugins = c.plugins /\ start_calls = c.start_calls
          /\ ~c.failed =>
               /\ plugins = c.plugins \cup {[name |-> c.plugin_name, plugin |-> c.plugin]}
               /\ Cardinality(plugins) = Cardinality(c.plugins) + 1
               /\ start_calls = Called(c.start_calls, c.plugin)
  /\ (clean_up.pc = "idle" /\ plugin_call.name = "stop_plugin") =>
       LET c == plugin_call
           registered == {p \in c.plugins : p.name = c.plugin_name}
       IN /\ start_calls = c.start_calls
          /\ c.failed <=> registered = {}
          /\ c.failed => plugins = c.plugins /\ stop_calls = c.stop_calls
          /\ ~c.failed =>
               /\ plugins = c.plugins \ registered
               /\ Cardinality(registered) = 1
               /\ \A p \in registered : stop_calls = Called(c.stop_calls, p.plugin)

\* a plugin that is registered under one name was loaded under another name:
\* the call failed
C26_Witness ==
  /\ clean_up.pc = "idle"
  /\ plugin_call.name = "load_plugin"
  /\ plugin_call.failed
  /\ plugins_count(plugin_call.plugins, plugin_call.plugin_name) = 0
  /\ _is_duplicate(plugin_call.plugins, plugin_call.plugin)

\* one of two registered plugins was stopped
C26_WitnessStop ==
  /\ clean_up.pc = "idle"
  /\ plugin_call.name = "stop_plugin"
  /\ ~plugin_call.failed
  /\ Cardinality(plugin_call.plugins) = 2
  /\ Cardinality(plugins) = 1

\* C27: _clean_up comes to its end, never fails, and at its end the registry is
\* empty and stop() was called exactly once on each plugin that was registered
\* and on no other.
C27_CleanUpStopsEachPluginOnce ==
  /\ clean_up.pc \notin {"terminated", "crashed"}
  /\ clean_up.pc = "done" =>
       /\ plugins = {}
       /\ \A q \in Plugins :
            stop_calls[q] = clean_up.stop_calls[q] +
                            (IF \E p \in clean_up.plugins : p.plugin = q THEN 1 ELSE 0)

\* ================================================ Console: transactions
\* A transaction context is its transaction id, 1 .. Len(transactions);
\* transactions holds the phase of each context begin created.
nullptr == 0

\* the ways the SQL pipeline of a statement ends: it yields its result; its
\* creation throws InvalidInputException; get_result_table throws
\* InvalidInputException and no statement's transaction context is aborted;
\* get_result_table throws and the failed statement's transaction context,
\* which has been rolled back, is aborted
PipelineOutcomes == {"result", "creation_invalid_input", "invalid_input", "aborted"}

\* the explicit context is kept whatever the failed statement
_handle_rollback_keeps_context(context, outcome) == context

\* Console::_handle_rollback: the explicit context afterwards
_handle_rollback(context, outcome) == IF outcome = "aborted" THEN nullptr ELSE context

\* the phases after the pipeline has run with the given context
PipelinePhases(phases, context, outcome) ==
  IF outcome = "aborted" /\ context # nullptr
  THEN [phases EXCEPT ![context] = "Aborted"]
  ELSE phases

\* the command made, and the state it was made in
Command(name, outcome) ==
  [name |-> name, outcome |-> outcome,
   context |-> explicitly_created_transaction_context,
   transactions |-> transactions,
   previous |-> IF command.name = "sql" THEN command.outcome ELSE command.name]

OtherThanConsole == <<joinVars, dictVars, histVars, stringVars, dpVars, estVars, chunkVars,
                      tableVars, jitVars, pluginVars, generatorVars>>

\* Console::_begin_transaction
_begin_transaction ==
  /\ command.name # "idle"
  /\ IF explicitly_created_transaction_context # nullptr
     THEN /\ return_code' = "Error"
          /\ UNCHANGED <<explicitly_created_transaction_context, transactions>>
     ELSE /\ Len(transactions) < MaxTransactions
          /\ transactions' = Append(transactions, "Active")
          /\ explicitly_created_transaction_context' = Len(transactions) + 1
          /\ return_code' = "Ok"
  /\ command' = Command("begin", "")
  /\ UNCHANGED OtherThanConsole

\* Console::_rollback_transaction
_rollback_transaction ==
  /\ command.name # "idle"
  /\ IF explicitly_created_transaction_context = nullptr
     THEN /\ return_code' = "Error"
          /\ UNCHANGED <<explicitly_created_transaction_context, transactions>>
     ELSE /\ transactions' =
               [transactions EXCEPT ![explicitly_created_transaction_context] = "RolledBack"]
          /\ explicitly_created_transaction_context' = nullptr
          /\ return_code' = "Ok"
  /\ command' = Command("rollback", "")
  /\ UNCHANGED OtherThanConsole

\* Console::_commit_transaction
_commit_transaction ==
  /\ command.name # "idle"
  /\ IF explicitly_created_transaction_context = nullptr
     THEN /\ return_code' = "Error"
          /\ UNCHANGED <<explicitly_created_transaction_context, transactions>>
     ELSE /\ transactions' =
               [transactions EXCEPT ![explicitly_created_transaction_context] = "Committed"]
          /\ explicitly_created_transaction_context' = nullptr
          /\ return_code' = "Ok"
  /\ command' = Command("commit", "")
  /\ UNCHANGED OtherThanConsole

\* Console::_print_transaction_info
_print_transaction_info ==
  /\ command.name # "idle"
  /\ return_code' = IF explicitly_created_transaction_context = nullptr THEN "Error" ELSE "Ok"
  /\ command' = Command("txinfo", "")
  /\ UNCHANGED <<explicitly_created_transaction_context, transactions, OtherThanConsole>>

\* Console::_eval_sql: _initialize_pipeline, get_result_table and the handler
\* of InvalidInputException
_eval_sql ==
  \E outcome \in PipelineOutcomes :
    /\ command.name # "idle"
    /\ transactions' = PipelinePhases(transactions, explicitly_created_transaction_context,
                                      outcome)
    /\ explicitly_created_transaction_context' =
         IF outcome \in {"invalid_input", "aborted"}
         THEN _handle_rollback(explicitly_created_transaction_context, outcome)
         ELSE explicitly_created_transaction_context
    /\ return_code' = IF outcome = "result" THEN "Ok" ELSE "Error"
    /\ command' = Command("sql", outcome)
    /\ UNCHANGED OtherThanConsole

ConsoleNext ==
  \/ _begin_transaction
  \/ _rollback_transaction
  \/ _commit_transaction
  \/ _print_transaction_info
  \/ _eval_sql

InitConsole ==
  /\ explicitly_created_transaction_context = nullptr
  /\ transactions = <<>>
  /\ return_code = "Ok"
  /\ command = [name |-> "started", outcome |-> ""]
  /\ JoinIdle
  /\ DictIdle
  /\ HistIdle
  /\ StringAndDpIdle
  /\ RestIdleBut("console")

SpecConsole == InitConsole /\ [][ConsoleNext]_vars

\* ------------------------------------------------------ properties of Console
\* the transactions that are neither committed nor rolled back
ActiveTransactions == {t \in 1..Len(transactions) : transactions[t] = "Active"}

C28_WitnessActive ==
  /\ command.name = "begin"
  /\ command.context # nullptr
  /\ return_code = "Error"

\* ======================================================= TableGenerator
\* The generated table has one column (every column is filled by the same
\* statements). A cell is its value and whether the generator assigned it.
GeneratedValue(v) == [value |-> v, generated |-> TRUE]

\* an int element of a vector constructed with a size: value-initialised
DefaultInitialised == [value |-> 0, generated |-> FALSE]

\* tbb::concurrent_vector<int>(n)
concurrent_vector(n) == [k \in 1..n |-> DefaultInitialised]

\* generate_table(chunk_size): vector_size
vector_size(args) == IF args.chunk_size < args.num_rows THEN args.chunk_size ELSE args.num_rows

\* generate_table(distributions, num_rows, chunk_size): num_chunks
num_chunks(args) == (args.num_rows + args.chunk_size - 1) \div args.chunk_size

\* generate_table(distributions, num_rows, chunk_size): the bounds check
bounds_check(args, chunk_index, row_offset) ==
  (chunk_index + 1) * args.chunk_size + (row_offset + 1) > args.num_rows

OtherThanGenerator == <<joinVars, dictVars, histVars, stringVars, dpVars, estVars, chunkVars,
                        tableVars, jitVars, pluginVars, consoleVars>>

\* generate_table(chunk_size): one iteration of the loop over the rows
generate_row ==
  LET i == generator_index
      full == i % vector_size(generator_args) = 0 /\ i > 0
      vector == IF full THEN concurrent_vector(vector_size(generator_args))
                ELSE value_vectors
  IN /\ gpc = "rows"
     /\ i < generator_args.num_rows
     /\ generated_table' = IF full THEN append_chunk(generated_table, value_vectors)
                           ELSE generated_table
     /\ \E v \in 0..MaxDifferentValue :
          value_vectors' =
            [vector EXCEPT ![(i % vector_size(generator_args)) + 1] = GeneratedValue(v)]
     /\ generator_index' = i + 1
     /\ UNCHANGED <<generator_args, gpc, OtherThanGenerator>>

\* generate_table(chunk_size): the remaining values are added, if any
add_remaining_values ==
  /\ gpc = "rows"
  /\ generator_index = generator_args.num_rows
  /\ generated_table' = IF value_vectors # <<>>
                        THEN append_chunk(generated_table, value_vectors)
                        ELSE generated_table
  /\ value_vectors' = IF value_vectors # <<>> THEN <<>> ELSE value_vectors
  /\ gpc' = "done"
  /\ UNCHANGED <<generator_args, generator_index, OtherThanGenerator>>

\* generate_table(distributions, num_rows, chunk_size): one iteration of the
\* loop over the chunks; the loop over the rows of the chunk ends at the first
\* row the bounds check rejects
generate_chunk ==
  LET chunk_index == generator_index
  IN /\ gpc = "chunks"
     /\ chunk_index < num_chunks(generator_args)
     /\ \E values \in [1..generator_args.chunk_size -> 0..MaxDifferentValue] :
          generated_table' =
            append_chunk(generated_table,
                         [k \in 1..generator_args.chunk_size |->
                            IF \E row_offset \in 0..(k - 1) :
                                 bounds_check(generator_args, chunk_index, row_offset)
                            THEN value_vectors[k]
                            ELSE GeneratedValue(values[k])])
     /\ value_vectors' = concurrent_vector(generator_args.chunk_size)
     /\ generator_index' = chunk_index + 1
     /\ UNCHANGED <<generator_args, gpc, OtherThanGenerator>>

\* generate_table(distributions, num_rows, chunk_size): return table
return_table ==
  /\ gpc = "chunks"
  /\ generator_index = num_chunks(generator_args)
  /\ gpc' = "done"
  /\ UNCHANGED <<generator_args, generated_table, value_vectors, generator_index,
                 OtherThanGenerator>>

GeneratorNext ==
  \/ generate_row
  \/ add_remaining_values
  \/ generate_chunk
  \/ return_table

InitGenerator ==
  /\ generator_args \in [overload : {1, 2}, num_rows : 1..MaxNumRows,
                         chunk_size : 1..MaxGeneratorChunkSize]
  /\ generated_table = new_table(generator_args.chunk_size)
  /\ value_vectors = IF generator_args.overload = 1
                     THEN concurrent_vector(vector_size(generator_args))
                     ELSE concurrent_vector(generator_args.chunk_size)
  /\ generator_index = 0
  /\ gpc = IF generator_args.overload = 1 THEN "rows" ELSE "chunks"
  /\ JoinIdle
  /\ DictIdle
  /\ HistIdle
  /\ StringAndDpIdle
  /\ RestIdleBut("generator")

SpecGenerator == InitGenerator /\ [][GeneratorNext]_vars

\* ----------------------------------------------- properties of TableGenerator
RECURSIVE RowsOfChunks(_)
RowsOfChunks(chunks) ==
  IF chunks = <<>> THEN 0 ELSE size(Head(chunks)) + RowsOfChunks(Tail(chunks))

\* C29: the table generate_table returns has num_rows rows in
\* ceil(num_rows / chunk_size) chunks, each chunk but the last has chunk_size
\* rows, and every row holds a generated value.
C29_GeneratedRowCount ==
  gpc = "done" =>
    /\ RowsOfChunks(generated_table.chunks) = generator_args.num_rows
    /\ Len(generated_table.chunks) = num_chunks(generator_args)
    /\ \A c \in 1..(Len(generated_table.chunks) - 1) :
         size(generated_table.chunks[c]) = generator_args.chunk_size
    /\ \A c \in 1..Len(generated_table.chunks) :
         \A k \in 1..size(generated_table.chunks[c]) :
           generated_table.chunks[c].segment[k].generated

\* C29, the part of it generate_table(chunk_size) keeps: if num_rows is a
\* multiple of the chunk size, or less than it, the table is as required
C29_RowCountOfMultiples ==
  (/\ gpc = "done"
   /\ generator_args.overload = 1
   /\ generator_args.num_rows % vector_size(generator_args) = 0) =>
    /\ RowsOfChunks(generated_table.chunks) = generator_args.num_rows
    /\ Len(generated_table.chunks) = num_chunks(generator_args)
    /\ \A c \in 1..Len(generated_table.chunks) :
         \A k \in 1..size(generated_table.chunks[c]) :
           generated_table.chunks[c].segment[k].generated

\* ============================ JoinNestedLoop: the modes that are not outer
\* the modes _create_table_structure and _perform_join do not distinguish
ModesLikeInner == {"Inner", "Cross", "Semi", "Anti"}

\* C30: in Inner, Cross, Semi and Anti mode alike the join does not fail, and
\* its output has the columns of both inputs and holds, once each, exactly the
\* pairs of rows whose non-NULL join values satisfy the predicate; it holds no
\* NULL-extended row.
C30_ModesLikeInner ==
  mode \in ModesLikeInner =>
    /\ pc # "crashed"
    /\ pc = "done" =>
         /\ Len(pos_list_left) = Len(pos_list_right)
         /\ \A i \in 1..OutputRowCount :
              /\ pos_list_left[i] \in RowIDsOf(left_in_table)
              /\ pos_list_right[i] \in RowIDsOf(right_in_table)
              /\ Satisfies(pos_list_left[i], pos_list_right[i])
         /\ \A l \in RowIDsOf(left_in_table) : \A r \in RowIDsOf(right_in_table) :
              Satisfies(l, r) =>
                Cardinality({i \in 1..OutputRowCount :
                               pos_list_left[i] = l /\ pos_list_right[i] = r}) = 1
         /\ Len(output_cxlumn_definitions) =
              cxlumn_count(left_in_table) + cxlumn_count(right_in_table)
         /\ Len(output_segments) =
              cxlumn_count(left_in_table) + cxlumn_count(right_in_table)
         /\ \A k \in 1..Len(output_cxlumn_definitions) :
              output_cxlumn_definitions[k].nullable =
                IF k <= cxlumn_count(left_in_table)
                THEN column_is_nullable(left_in_table, k - 1)
                ELSE column_is_nullable(right_in_table, k - cxlumn_count(left_in_table) - 1)

\* a Cross join that emitted one of the four pairs of its inputs' rows
C30_Witness ==
  /\ pc = "done" /\ mode = "Cross" /\ predicate_condition = "Equals"
  /\ row_count(left_in_table) = 2 /\ row_count(right_in_table) = 2
  /\ OutputRowCount = 1
  /\ Len(output_segments) = cxlumn_count(left_in_table) + cxlumn_count(right_in_table)

\* a Semi join and an Anti join that emitted a matching pair, with the right
\* input's column
C30_WitnessSemi ==
  /\ pc = "done" /\ mode = "Semi" /\ OutputRowCount >= 1
  /\ Len(output_segments) > cxlumn_count(left_in_table)

C30_WitnessAnti ==
  /\ pc = "done" /\ mode = "Anti" /\ OutputRowCount >= 1
  /\ \E r \in RowIDsOf(left_in_table) : \A i \in 1..OutputRowCount : pos_list_left[i] # r

====
